---- MODULE Spec2Model ----
(***************************************************************************)
(* msm-client: the pairing coordinator (pairing/pairing.go), its IP        *)
(* reputation tracker, the ECDH key state it drives (utils/ecdh.go) and    *)
(* the paired-state store (state/state.go).                                *)
(*                                                                         *)
(* Time is a discrete clock `now`; every time.Now() of one critical        *)
(* section reads the same value.  Durations are scaled to clock ticks,     *)
(* keeping their order (code TTL < blacklist duration).                    *)
(***************************************************************************)
EXTENDS Integers, FiniteSets, Sequences, TLC

\* ---------------------------------------------------------------- constants
\* pairing.go:60  const MAX_FAIL_COUNT = 3
MAX_FAIL_COUNT == 3
\* pairing.go:63  const MAX_IP_VIOLATIONS = 3
MAX_IP_VIOLATIONS == 3
\* pairing.go:64  const IP_BLACKLIST_DURATION = 1 * time.Hour   (in ticks)
IP_BLACKLIST_DURATION == 2
\* pairing.go:170 const pairingCodeExpiry = 1 * time.Minute     (in ticks)
pairingCodeExpiry == 1

\* websocket.go:676 backoff := time.Second                      (in seconds)
InitialBackoff == 1
\* websocket.go:695 if backoff > 30*time.Second                  (in seconds)
MaxBackoff == 30

\* ---------------------------------------------------------------- bounds
\* the clock stops at MaxTime
MaxTime == 4
\* recordIPViolation is not taken once an address has MaxViolCount violations
MaxViolCount == 4
\* at most MaxDeferred deferred shutdown goroutines are told apart; one
\* started beyond that runs together with a pending one
MaxDeferred == 1

\* client addresses and pairing codes
IPs == {"ipA", "ipB"}
Codes == {"AAA", "BBB"}
\* serverPublicKey of a confirm request: absent, or a P-256 public key
PeerKeys == {"none", "valid"}
\* the bodies of confirm requests: well-formed JSON with a code and an
\* optional server key, or a body that does not decode
ConfirmBodies ==
    [code : Codes, key : PeerKeys, bodyOk : {TRUE}]
        \cup {[code |-> "", key |-> "none", bodyOk |-> FALSE]}

\* time.Time{} : the zero time, before every clock value
ZeroTime == 0
\* a map without an entry for the key
NoEntry == -1
\* no paired.json on disk
NoState == [ServerWs |-> "", SessionKey |-> "", present |-> FALSE]
\* the answer of the request handled by the last step, with the address and
\* the code of that request; NoResp when the last step handled no request
NoResp ==
    [kind |-> "none", ip |-> "", code |-> "", status |-> 0, why |-> "",
     expiry |-> ZeroTime]

\* a frame on the socket: an application message is a JSON text frame, the
\* close frame is a control frame
CloseFrame == [type |-> "close", enc |-> FALSE, key |-> ""]
\* a field a JSON message does not carry (or carries with another type)
Missing == "<missing>"
\* no command payload
NoCmd == [command |-> Missing, command_id |-> Missing, params |-> Missing]
\* no inbound message
NoMsg == [form |-> "none", type |-> "", decOk |-> FALSE]
\* what the last step of the WebSocket manager did: the step, the inbound
\* message it read, the frames it wrote, the handler the message was
\* dispatched to, whether a send reported an error; NoWsEvt when the last
\* step was not a step of the manager; for a command message also its
\* payload, the payloads handleCommand passed to sendResponse and the
\* programs it ran; for a failed dial the delay slept before the next one
NoWsEvt ==
    [op |-> "none", msg |-> NoMsg, wire |-> <<>>, dispatched |-> "none",
     sendErr |-> FALSE, cmd |-> NoCmd, replies |-> <<>>, effects |-> {},
     slept |-> 0]
\* the cryptographic helpers of utils driven directly (message cipher, ECDH
\* engine): no call made
NoCrypto == [op |-> "none"]

VARIABLES
    now,
    pairCode, expiry, failCount, pairCodeIP,
    ipBlacklist, ipViolations,
    serverRunning, cancelCleanup, deferred, isShuttingDown,
    ecdhPrivateKey, ecdhPublicKey, sharedSecret, sessionKey,
    codeFile, pairedState,
    resp,
    mainPc, wsPc, backoff, retReason, connected, connOpen, shutdown, chan,
    inbound, statusTask, livenessTask, caller, disableCommands, wsEvt,
    crypto,
    codeMutex, calls, writing

codeVars == <<pairCode, expiry, failCount, pairCodeIP>>
ipVars == <<ipBlacklist, ipViolations>>
serverVars == <<serverRunning, cancelCleanup, deferred, isShuttingDown>>
ecdhVars == <<ecdhPrivateKey, ecdhPublicKey, sharedSecret, sessionKey>>
\* the handlers taken statement by statement: the holder of codeMutex, the
\* confirm requests in progress, the tasks inside a write on the connection
fineVars == <<codeMutex, calls, writing>>
\* the WebSocket manager and the control flow of main.go
wsVars ==
    <<mainPc, wsPc, backoff, retReason, connected, connOpen, shutdown, chan,
      inbound, statusTask, livenessTask, caller, disableCommands, crypto,
      fineVars>>
vars ==
    <<now, codeVars, ipVars, serverVars, ecdhVars, codeFile, pairedState, resp,
      wsVars, wsEvt>>

\* ---------------------------------------------------------------- helpers
\* time.Time.Before / time.Time.After are strict
Before(t, u) == t < u
After(t, u) == t > u

\* ---------------------------------------------------------------- variants
\* Each definition below differs in one detail from the definition of the
\* source that follows it further down; the property named with it fails
\* when the variant takes that definition's place.

\* C2: the attempt limit is reached one attempt early
ConfirmExpiredEarly == After(now, expiry) \/ failCount >= MAX_FAIL_COUNT - 1
\* C3: the attempt limit is one too high
ConfirmExpiredLate == After(now, expiry) \/ failCount > MAX_FAIL_COUNT
\* C4: a session that has seen a failed attempt is not kept
CodeStillValidUntried == pairCode # "" /\ Before(now, expiry) /\ failCount = 0
\* C6: the comparison with the bound address is inverted
ConfirmIPMismatchInverted(ip) == pairCodeIP # "" /\ ip = pairCodeIP
\* C7: the threshold is compared with > instead of >=
recordIPViolationLate(ip) == ipViolations[ip] + 1 > MAX_IP_VIOLATIONS
\* C9: a blacklist entry stops counting one tick before it runs out
isIPBlacklistedShort(ip) ==
    /\ ipBlacklist[ip] # NoEntry
    /\ Before(now + 1, ipBlacklist[ip])

\* C12: a failed derivation is not noticed
KeyExchangeOkAlways(key) == key = "none" \/ key # "none"

\* ---------------------------------------------------------------- helpers, continued
\* isIPBlacklisted: the value it returns
isIPBlacklisted(ip) ==
    /\ ipBlacklist[ip] # NoEntry
    /\ Before(now, ipBlacklist[ip])

\* isIPBlacklisted: the blacklist map it leaves (an expired entry of ip is
\* deleted; the violation count is not touched)
BlacklistAfterCheck(ip) ==
    IF ipBlacklist[ip] # NoEntry /\ ~Before(now, ipBlacklist[ip])
    THEN [ipBlacklist EXCEPT ![ip] = NoEntry]
    ELSE ipBlacklist

\* recordIPViolation: the count it leaves, the value it returns, the
\* blacklist it leaves (given the blacklist bl it finds)
ViolationsAfterRecord(ip) == [ipViolations EXCEPT ![ip] = @ + 1]
recordIPViolation(ip) == ViolationsAfterRecord(ip)[ip] >= MAX_IP_VIOLATIONS
BlacklistAfterRecord(bl, ip) ==
    IF recordIPViolation(ip)
    THEN [bl EXCEPT ![ip] = now + IP_BLACKLIST_DURATION]
    ELSE bl

\* cleanupBlacklist: entries that expired strictly before now are removed,
\* together with their violation count
ExpiredEntry(ip) == ipBlacklist[ip] # NoEntry /\ After(now, ipBlacklist[ip])
cleanupBlacklist ==
    /\ ipBlacklist' = [ip \in IPs |-> IF ExpiredEntry(ip) THEN NoEntry
                                      ELSE ipBlacklist[ip]]
    /\ ipViolations' = [ip \in IPs |-> IF ExpiredEntry(ip) THEN 0
                                       ELSE ipViolations[ip]]

\* HandlePair's test for "a valid pairing code already exists"
CodeStillValid == pairCode # "" /\ Before(now, expiry)
\* HandleConfirm's test for "expired or max attempts"
ConfirmExpired == After(now, expiry) \/ failCount >= MAX_FAIL_COUNT

\* utils.GenerateCode: a random code over A-Z0-9; a draw is taken to differ
\* from the code it replaces (utils_test.go "Randomness test")
GenerateCode == Codes \ {pairCode}

\* ---------------------------------------------------------------- initial state
\* NewWebSocketManager, and main before its first LoadState
WsInit ==
    /\ mainPc = "start" /\ wsPc = "idle" /\ retReason = "none"
    /\ backoff = InitialBackoff
    /\ connected = FALSE /\ connOpen = FALSE /\ shutdown = FALSE
    /\ chan = "open" /\ inbound = "off"
    /\ statusTask = FALSE /\ livenessTask = FALSE
    /\ caller = "none" /\ wsEvt = NoWsEvt

\* the requests told apart when handlers are taken statement by statement
MaxCallers == 4
CallIds == 1..MaxCallers
\* a request that has not arrived: where its handler stands, its address,
\* code and server key, the failCount its increment has loaded, its answer
NoCall ==
    [pc |-> "idle", ip |-> "", code |-> "", key |-> "none", loaded |-> 0,
     answer |-> "none"]
\* no handler inside codeMutex, no request in progress, no write in progress
FineInit ==
    /\ codeMutex = 0
    /\ calls = [i \in CallIds |-> NoCall]
    /\ writing = {}

\* NewPairingManager, no server started, no paired.json, clock at 1
Init ==
    /\ now = 1
    /\ pairCode = "" /\ expiry = ZeroTime /\ failCount = 0 /\ pairCodeIP = ""
    /\ ipBlacklist = [ip \in IPs |-> NoEntry]
    /\ ipViolations = [ip \in IPs |-> 0]
    /\ serverRunning = FALSE /\ cancelCleanup = FALSE /\ deferred = 0
    /\ isShuttingDown = FALSE
    /\ ecdhPrivateKey = FALSE /\ ecdhPublicKey = FALSE
    /\ sharedSecret = FALSE /\ sessionKey = FALSE
    /\ codeFile = "" /\ pairedState = NoState
    /\ resp = NoResp
    /\ WsInit /\ FineInit
    /\ disableCommands = FALSE
    /\ crypto = NoCrypto

\* ---------------------------------------------------------------- actions
\* the clock advances
Tick ==
    /\ now < MaxTime
    /\ now' = now + 1
    /\ resp' = NoResp
    /\ wsEvt' = NoWsEvt /\ UNCHANGED wsVars
    /\ UNCHANGED <<codeVars, ipVars, serverVars, ecdhVars, codeFile, pairedState>>

\* main.go, the pairing loop: unless the process is shutting down, when no
\* paired.json is left (none at start, or ConnectWebSocket has returned) it
\* calls StartPairingServerOnPort, which returns at once when a server is
\* running and else installs the server and starts the cleanup task
StartPairingServerOnPort ==
    /\ ~isShuttingDown
    /\ ~pairedState.present
    /\ ~serverRunning
    /\ serverRunning' = TRUE
    /\ cancelCleanup' = TRUE
    /\ resp' = NoResp
    /\ wsEvt' = NoWsEvt /\ UNCHANGED wsVars
    /\ UNCHANGED <<now, codeVars, ipVars, deferred, isShuttingDown, ecdhVars,
                   codeFile, pairedState>>

\* ResetPairing: the session fields and the code file it leaves
ResetPairing ==
    /\ pairCode' = ""
    /\ pairCodeIP' = ""
    /\ expiry' = ZeroTime
    /\ failCount' = 0
    /\ codeFile' = ""

\* ClearECDHKeys
ClearECDHKeys ==
    /\ ecdhPrivateKey' = FALSE
    /\ ecdhPublicKey' = FALSE
    /\ sharedSecret' = FALSE
    /\ sessionKey' = FALSE

\* the response of a pair request
PairResp(ip, status, why, exp) ==
    [kind |-> "pair", ip |-> ip, code |-> "", status |-> status, why |-> why,
     expiry |-> exp]

\* HandlePair, lines 418-474: the section under codeMutex; genOk tells
\* whether utils.GenerateECDHKeyPair returns without error
HandlePairLocked(ip, genOk) ==
    IF CodeStillValid
    THEN /\ genOk
         /\ resp' = PairResp(ip, 200, "AlreadyActive", expiry)
         /\ UNCHANGED <<codeVars, ecdhVars, codeFile>>
    ELSE \E c \in GenerateCode :
         /\ pairCode' = c
         /\ pairCodeIP' = ip
         /\ expiry' = now + pairingCodeExpiry
         /\ failCount' = 0
         /\ IF genOk
            THEN /\ ecdhPrivateKey' = TRUE
                 /\ ecdhPublicKey' = TRUE
                 /\ UNCHANGED <<sharedSecret, sessionKey>>
                 /\ codeFile' = c
                 /\ resp' = PairResp(ip, 200, "Generated", now + pairingCodeExpiry)
            ELSE /\ UNCHANGED <<ecdhVars, codeFile>>
                 /\ resp' = PairResp(ip, 500, "KeyGenFailed", ZeroTime)

\* HandlePair: POST /pair from address ip
HandlePair(ip, genOk) ==
    /\ serverRunning
    /\ IF isIPBlacklisted(ip)
       THEN /\ genOk
            /\ resp' = PairResp(ip, 403, "AccessDenied", ZeroTime)
            /\ UNCHANGED <<codeVars, ipBlacklist, ecdhVars, codeFile>>
       ELSE /\ ipBlacklist' = BlacklistAfterCheck(ip)
            /\ HandlePairLocked(ip, genOk)
    /\ wsEvt' = NoWsEvt /\ UNCHANGED wsVars
    /\ UNCHANGED <<now, ipViolations, serverVars, pairedState>>

\* the response of a confirm request
ConfirmResp(ip, code, status, why) ==
    [kind |-> "confirm", ip |-> ip, code |-> code, status |-> status, why |-> why,
     expiry |-> ZeroTime]

\* HandleConfirm, line 507: the request comes from another address than the
\* one the code was issued to
ConfirmIPMismatch(ip) == pairCodeIP # "" /\ ip # pairCodeIP

\* HandleConfirm, lines 535-564: DeriveSharedSecret and DeriveSessionKey
\* succeed, or are skipped because no server key was given
KeyExchangeOk(key) ==
    \/ key = "none"
    \/ key = "valid" /\ ecdhPrivateKey

\* HandleConfirm, lines 566-626: the success path
ConfirmSuccess(ip, code, key) ==
    /\ pairedState' = [ServerWs |-> "ws",
                       SessionKey |-> IF key = "none" THEN "" ELSE "K",
                       present |-> TRUE]
    /\ cancelCleanup' = FALSE
    /\ ClearECDHKeys
    /\ deferred' = IF deferred < MaxDeferred THEN deferred + 1 ELSE deferred
    /\ resp' = ConfirmResp(ip, code, 200, "Paired")
    /\ UNCHANGED <<codeVars, ipViolations>>

\* HandleConfirm, lines 501-627: the section under codeMutex
HandleConfirmLocked(ip, code, key) ==
    IF ConfirmIPMismatch(ip)
    THEN /\ ipViolations[ip] < MaxViolCount
         /\ ipViolations' = ViolationsAfterRecord(ip)
         /\ ipBlacklist' = BlacklistAfterRecord(BlacklistAfterCheck(ip), ip)
         /\ resp' = ConfirmResp(ip, code, 403, "AccessDenied")
         /\ UNCHANGED <<codeVars, cancelCleanup, deferred, ecdhVars, pairedState>>
    ELSE /\ ipBlacklist' = BlacklistAfterCheck(ip)
         /\ IF ConfirmExpired
            THEN /\ resp' = ConfirmResp(ip, code, 403, "CodeExpired")
                 /\ UNCHANGED <<codeVars, ipViolations, cancelCleanup, deferred,
                                ecdhVars, pairedState>>
            ELSE IF code # pairCode
            THEN /\ failCount' = failCount + 1
                 /\ resp' = ConfirmResp(ip, code, 401, "IncorrectCode")
                 /\ UNCHANGED <<pairCode, expiry, pairCodeIP, ipViolations,
                                cancelCleanup, deferred, ecdhVars, pairedState>>
            ELSE IF ~KeyExchangeOk(key)
            THEN /\ resp' = ConfirmResp(ip, code, 500, "KeyExchangeFailed")
                 /\ UNCHANGED <<codeVars, ipViolations, cancelCleanup, deferred,
                                ecdhVars, pairedState>>
            ELSE ConfirmSuccess(ip, code, key)

\* HandleConfirm: POST /pair/confirm from address ip
HandleConfirm(ip, code, key, bodyOk) ==
    /\ serverRunning
    /\ IF isIPBlacklisted(ip)
       THEN /\ resp' = ConfirmResp(ip, code, 403, "AccessDenied")
            /\ UNCHANGED <<codeVars, ipVars, cancelCleanup, deferred, ecdhVars,
                           pairedState>>
       ELSE IF ~bodyOk
       THEN /\ ipBlacklist' = BlacklistAfterCheck(ip)
            /\ resp' = ConfirmResp(ip, "", 400, "InvalidRequest")
            /\ UNCHANGED <<codeVars, ipViolations, cancelCleanup, deferred,
                           ecdhVars, pairedState>>
       ELSE HandleConfirmLocked(ip, code, key)
    /\ wsEvt' = NoWsEvt /\ UNCHANGED wsVars
    /\ UNCHANGED <<now, serverRunning, isShuttingDown, codeFile>>

\* the cleanup task, lines 352-375: one tick of its 5 s ticker
Sweep ==
    /\ cancelCleanup
    /\ IF \/ After(now, expiry) /\ pairCode # ""
          \/ failCount >= MAX_FAIL_COUNT /\ pairCode # ""
       THEN /\ ResetPairing
            /\ ClearECDHKeys
       ELSE UNCHANGED <<codeVars, codeFile, ecdhVars>>
    /\ cleanupBlacklist
    /\ resp' = NoResp
    /\ wsEvt' = NoWsEvt /\ UNCHANGED wsVars
    /\ UNCHANGED <<now, serverVars, pairedState>>

\* the goroutine of lines 618-626 after its sleep: Shutdown of the server
\* that is installed (ListenAndServe returns, clearServer), then ResetPairing
DeferredShutdown ==
    /\ deferred > 0
    /\ deferred' = deferred - 1
    /\ serverRunning' = FALSE
    /\ ResetPairing
    /\ resp' = NoResp
    /\ wsEvt' = NoWsEvt /\ UNCHANGED wsVars
    /\ UNCHANGED <<now, ipVars, cancelCleanup, isShuttingDown, ecdhVars, pairedState>>

\* main.go gracefulShutdown (a signal arrived; the process exits after it):
\* StopPairingServer when a server is running
StopPairingServer ==
    /\ ~isShuttingDown
    /\ isShuttingDown' = TRUE
    /\ serverRunning
    /\ serverRunning' = FALSE
    /\ ResetPairing
    /\ cancelCleanup' = FALSE
    /\ ClearECDHKeys
    /\ resp' = NoResp
    /\ wsEvt' = NoWsEvt /\ UNCHANGED wsVars
    /\ UNCHANGED <<now, ipVars, deferred, pairedState>>

\* main.go, `pairing reset`: an operator deletes the pairing code file and
\* paired.json
OperatorReset ==
    /\ pairedState.present
    /\ codeFile' = ""
    /\ pairedState' = NoState
    /\ resp' = NoResp
    /\ wsEvt' = NoWsEvt /\ UNCHANGED wsVars
    /\ UNCHANGED <<now, codeVars, ipVars, serverVars, ecdhVars>>

Next ==
    \/ Tick
    \/ StartPairingServerOnPort
    \/ \E ip \in IPs : HandlePair(ip, TRUE)
    \/ \E ip \in IPs, b \in ConfirmBodies : HandleConfirm(ip, b.code, b.key, b.bodyOk)
    \/ Sweep
    \/ DeferredShutdown
    \/ StopPairingServer
    \/ OperatorReset

Spec == Init /\ [][Next]_vars

\* the same program with an entropy source that can fail: GenerateECDHKeyPair
\* may return an error (HandlePair, lines 448-452)
KeyGenFails == \E ip \in IPs : HandlePair(ip, FALSE)
NextKeyGen == Next \/ KeyGenFails
SpecKeyGen == Init /\ [][NextKeyGen]_vars

\* the same program with servers that may send a serverPublicKey that is not
\* the base64 of a P-256 point: DeriveSharedSecret returns an error
\* (ecdh.go, lines 73-83)
BadKeyConfirm == \E ip \in IPs, c \in Codes : HandleConfirm(ip, c, "invalid", TRUE)
NextPeerKey == Next \/ BadKeyConfirm
SpecPeerKey == Init /\ [][NextPeerKey]_vars

\* ---------------------------------------------------------------- the IP
\* reputation tracker driven directly (as pairing's unit tests drive it)
BoolResp(kind, ip, b) ==
    [NoResp EXCEPT !.kind = kind, !.ip = ip, !.why = IF b THEN "true" ELSE "false"]

\* isIPBlacklisted(ip)
IsBlacklistedCall(ip) ==
    /\ resp' = BoolResp("isIPBlacklisted", ip, isIPBlacklisted(ip))
    /\ ipBlacklist' = BlacklistAfterCheck(ip)
    /\ wsEvt' = NoWsEvt /\ UNCHANGED wsVars
    /\ UNCHANGED <<now, codeVars, ipViolations, serverVars, ecdhVars, codeFile,
                   pairedState>>

\* recordIPViolation(ip)
RecordViolationCall(ip) ==
    /\ ipViolations[ip] < MaxViolCount
    /\ resp' = BoolResp("recordIPViolation", ip, recordIPViolation(ip))
    /\ ipViolations' = ViolationsAfterRecord(ip)
    /\ ipBlacklist' = BlacklistAfterRecord(ipBlacklist, ip)
    /\ wsEvt' = NoWsEvt /\ UNCHANGED wsVars
    /\ UNCHANGED <<now, codeVars, serverVars, ecdhVars, codeFile, pairedState>>

\* cleanupBlacklist()
CleanupCall ==
    /\ cleanupBlacklist
    /\ resp' = NoResp
    /\ wsEvt' = NoWsEvt /\ UNCHANGED wsVars
    /\ UNCHANGED <<now, codeVars, serverVars, ecdhVars, codeFile, pairedState>>

TrackerNext ==
    \/ Tick
    \/ \E ip \in IPs : IsBlacklistedCall(ip)
    \/ \E ip \in IPs : RecordViolationCall(ip)
    \/ CleanupCall

SpecTracker == Init /\ [][TrackerNext]_vars

\* ---------------------------------------------------------------- the
\* WebSocket manager (ws/websocket.go) and the control flow of main.go
\* the type field of a message: the four types handleMessage knows, one it
\* does not know, and no type field
MsgTypes == {"ping", "command", "error", "deactivated", "other", Missing}
\* inbound messages: a plaintext JSON message, an EncryptedEnvelope whose
\* payload decrypts under the stored session key to a message of some type,
\* and an EncryptedEnvelope whose payload does not decrypt (wrong key,
\* malformed or too short payload, invalid padding)
InMsgs ==
    [form : {"plain"}, type : MsgTypes, decOk : {FALSE}]
    \cup [form : {"enc"}, type : MsgTypes, decOk : {TRUE}]
    \cup {[form |-> "enc", type |-> "", decOk |-> FALSE]}
\* the ServerWs strings a descriptor can hold: one url.Parse accepts, one it
\* rejects (HandleConfirm stores the request's serverWs as it came)
ServerWsValues == {"ws", "bad"}
\* the session keys a descriptor can hold: none (paired without a
\* serverPublicKey) or a derived key
SessionKeys == {"", "K"}

\* variant: a DeleteState that leaves paired.json in place
DeleteStateKeeps == pairedState
\* state.DeleteState: the descriptor it leaves
DeleteState == NoState

\* state.HasState, state.GetSessionKey
HasState == pairedState.present
GetSessionKey == IF pairedState.present THEN pairedState.SessionKey ELSE ""

\* the step a manager action records
WsEvt(op, msg, wire, dispatched, sendErr) ==
    [op |-> op, msg |-> msg, wire |-> wire, dispatched |-> dispatched,
     sendErr |-> sendErr, cmd |-> NoCmd, replies |-> <<>>, effects |-> {},
     slept |-> 0]
\* what no step of the manager or of main changes
WsFrame ==
    /\ resp' = NoResp
    /\ UNCHANGED <<now, codeVars, ipVars, ecdhVars, codeFile, cancelCleanup,
                   deferred, disableCommands, crypto, fineVars>>

\* variant: a sendResponse that falls back to plaintext without a session key
sendResponsePlainFallback(type) ==
    IF ~connOpen
    THEN <<>>
    ELSE <<[type |-> type, enc |-> GetSessionKey # "", key |-> GetSessionKey]>>

\* sendResponse: an error and nothing written when no session key is stored
\* or the write fails, else one EncryptedEnvelope under the stored key
sendResponseErr == GetSessionKey = "" \/ ~connOpen
sendResponse(type) ==
    IF sendResponseErr
    THEN <<>>
    ELSE <<[type |-> type, enc |-> TRUE, key |-> GetSessionKey]>>

\* variant: a close of the channel without the sync.Once
closeUnguarded(c) == c
\* sync.Once around the close of one of the three channels
closeOnce(c) == IF chan = "open" THEN c ELSE chan

\* variant: a DisconnectWebSocket that sends the notice whatever it is asked
DisconnectFramesAlwaysNotice(sendMessage) ==
    sendResponse("disconnect") \o (IF connOpen THEN <<CloseFrame>> ELSE <<>>)

\* DisconnectWebSocket up to its sleep, on a manager that is connected: the
\* disconnect envelope when asked for, then the close control frame
DisconnectFrames(sendMessage) ==
    (IF sendMessage THEN sendResponse("disconnect") ELSE <<>>)
        \o (IF connOpen THEN <<CloseFrame>> ELSE <<>>)

\* ConnectWebSocket up to its loop: an unparsable URL makes it return
ConnectCall ==
    /\ backoff' = InitialBackoff
    /\ IF pairedState.ServerWs = "bad"
       THEN wsPc' = "idle" /\ retReason' = "badUrl"
       ELSE wsPc' = "loop" /\ retReason' = "none"

\* main.go: the first LoadState
MainStart ==
    /\ mainPc = "start"
    /\ mainPc' = IF HasState THEN "loop1" ELSE "loop2"
    /\ wsEvt' = NoWsEvt
    /\ WsFrame
    /\ UNCHANGED <<serverRunning, isShuttingDown, pairedState, wsPc, backoff, retReason,
                   connected, connOpen, shutdown, chan, inbound, statusTask,
                   livenessTask, caller>>

\* main.go, the loop over a saved state: the top of the loop
MainLoop1 ==
    /\ mainPc = "loop1"
    /\ IF isShuttingDown
       THEN mainPc' = "loop2" /\ UNCHANGED <<wsPc, backoff, retReason>>
       ELSE mainPc' = "connect1" /\ ConnectCall
    /\ wsEvt' = NoWsEvt
    /\ WsFrame
    /\ UNCHANGED <<serverRunning, isShuttingDown, pairedState, connected,
                   connOpen, shutdown, chan, inbound, statusTask, livenessTask,
                   caller>>

\* main.go, the loop over a saved state: ConnectWebSocket has returned
MainAfterConnect1 ==
    /\ mainPc = "connect1" /\ wsPc = "idle"
    /\ mainPc' = IF isShuttingDown THEN "loop2"
                 ELSE IF HasState THEN "loop1" ELSE "loop2"
    /\ wsEvt' = NoWsEvt
    /\ WsFrame
    /\ UNCHANGED <<serverRunning, isShuttingDown, pairedState, wsPc, backoff, retReason,
                   connected, connOpen, shutdown, chan, inbound, statusTask,
                   livenessTask, caller>>

\* main.go, the pairing loop: the top of the loop, where
\* StartPairingServerOnPort installs the server and starts the cleanup task
MainLoop2 ==
    /\ mainPc = "loop2"
    /\ IF isShuttingDown
       THEN mainPc' = "exit" /\ UNCHANGED <<serverRunning, cancelCleanup>>
       ELSE /\ mainPc' = "pairing"
            /\ serverRunning' = TRUE
            /\ cancelCleanup' = TRUE
    /\ wsEvt' = NoWsEvt
    /\ resp' = NoResp
    /\ UNCHANGED <<now, codeVars, ipVars, ecdhVars, codeFile, deferred,
                   isShuttingDown, pairedState, wsPc, backoff, retReason, connected,
                   connOpen, shutdown, chan, inbound, statusTask, livenessTask,
                   caller, disableCommands, crypto, fineVars>>

\* main.go, the pairing loop: StartPairingServerOnPort has returned
MainAfterPairing ==
    /\ mainPc = "pairing" /\ ~serverRunning
    /\ IF HasState
       THEN mainPc' = "connect2" /\ ConnectCall
       ELSE mainPc' = "exit" /\ UNCHANGED <<wsPc, backoff, retReason>>
    /\ wsEvt' = NoWsEvt
    /\ WsFrame
    /\ UNCHANGED <<serverRunning, isShuttingDown, pairedState, connected,
                   connOpen, shutdown, chan, inbound, statusTask, livenessTask,
                   caller>>

\* main.go, the pairing loop: ConnectWebSocket has returned
MainAfterConnect2 ==
    /\ mainPc = "connect2" /\ wsPc = "idle"
    /\ mainPc' = "loop2"
    /\ wsEvt' = NoWsEvt
    /\ WsFrame
    /\ UNCHANGED <<serverRunning, isShuttingDown, pairedState, wsPc, backoff, retReason,
                   connected, connOpen, shutdown, chan, inbound, statusTask,
                   livenessTask, caller>>

\* variant: the delay is capped one doubling late
nextBackoffLateCap(b) == IF b * 2 > 2 * MaxBackoff THEN MaxBackoff ELSE b * 2
\* ConnectWebSocket, lines 694-697: the delay after the one just slept
nextBackoff(b) == IF b * 2 > MaxBackoff THEN MaxBackoff ELSE b * 2

\* ConnectWebSocket, the top of its loop; backoff is a local of the call:
\* once the call has returned the model holds the value the next call
\* starts with
ConnectLoop ==
    /\ wsPc = "loop"
    /\ IF shutdown
       THEN wsPc' = "idle" /\ retReason' = "shutdown"
       ELSE IF ~HasState
            THEN wsPc' = "idle" /\ retReason' = "noState"
            ELSE wsPc' = "dialing" /\ UNCHANGED retReason
    /\ backoff' = IF wsPc' = "idle" THEN InitialBackoff ELSE backoff
    /\ wsEvt' = WsEvt("loop", NoMsg, <<>>, "none", FALSE)
    /\ WsFrame
    /\ UNCHANGED <<serverRunning, isShuttingDown, pairedState, mainPc,
                   connected, connOpen, shutdown, chan, inbound, statusTask,
                   livenessTask, caller>>

\* ConnectWebSocket: Dial returns; on success setConnection, fresh channels
\* and the three tasks, on failure the backoff sleep and the loop again.
\* The tasks of the connection before are those of inbound, statusTask and
\* livenessTask until they have returned; all that is left for them to do
\* is to return on their closed channel or closed socket, and a dial
\* succeeds after they have.
Dial(ok) ==
    /\ wsPc = "dialing"
    /\ IF ok
       THEN /\ inbound = "off" /\ ~statusTask /\ ~livenessTask
            /\ wsPc' = "select"
            /\ connected' = TRUE /\ connOpen' = TRUE
            /\ chan' = "open"
            /\ inbound' = "top"
            /\ statusTask' = TRUE /\ livenessTask' = TRUE
            /\ backoff' = InitialBackoff
            /\ wsEvt' = WsEvt("dialed", NoMsg, <<>>, "none", FALSE)
       ELSE /\ wsPc' = "loop"
            /\ backoff' = nextBackoff(backoff)
            /\ wsEvt' = [WsEvt("dialFailed", NoMsg, <<>>, "none", FALSE)
                         EXCEPT !.slept = backoff]
            /\ UNCHANGED <<connected, connOpen, chan, inbound, statusTask,
                           livenessTask>>
    /\ WsFrame
    /\ UNCHANGED <<serverRunning, isShuttingDown, pairedState, mainPc,
                   retReason, shutdown, caller>>

\* the inbound task, the top of its loop
InboundTop ==
    /\ inbound = "top"
    /\ IF shutdown
       THEN inbound' = "off" /\ chan' = closeOnce("done")
       ELSE inbound' = "read" /\ UNCHANGED chan
    /\ wsEvt' = WsEvt("inboundTop", NoMsg, <<>>, "none", FALSE)
    /\ WsFrame
    /\ UNCHANGED <<serverRunning, isShuttingDown, pairedState, mainPc, wsPc, backoff,
                   retReason, connected, connOpen, shutdown, statusTask,
                   livenessTask, caller>>

\* the inbound task: ReadJSON fails on a connection that is closed
InboundReadFail ==
    /\ inbound = "read" /\ ~connOpen
    /\ inbound' = "off" /\ chan' = closeOnce("done")
    /\ wsEvt' = WsEvt("readFailed", NoMsg, <<>>, "none", FALSE)
    /\ WsFrame
    /\ UNCHANGED <<serverRunning, isShuttingDown, pairedState, mainPc, wsPc, backoff,
                   retReason, connected, connOpen, shutdown, statusTask,
                   livenessTask, caller>>

\* variant: a handleMessage that dispatches a plaintext message on its type
DispositionLenient(m) ==
    IF m.form = "plain" THEN m.type
    ELSE IF GetSessionKey = "" THEN "noKey"
    ELSE IF ~m.decOk THEN "violation"
    ELSE m.type

\* handleMessage: what it does with a message
\*   "violation"  ShutdownWebSocket(false) and DeleteState
\*   "noKey"      the error reply of lines 845-851
\*   else the type the message is dispatched on
Disposition(m) ==
    IF m.form = "plain" THEN "violation"
    ELSE IF GetSessionKey = "" THEN "noKey"
    ELSE IF ~m.decOk THEN "violation"
    ELSE m.type

\* variant: a handleError that answers the server with an error message
handleErrorAnswers == sendResponse("error")
\* handleError: the frames it writes (it logs the message and its timestamp)
handleError == <<>>

\* the handler a dispatched message reaches
Handler(d) == IF d \in {"ping", "command", "deactivated", "error"} THEN d ELSE "none"

\* the commands of the protocol and one the client does not know
CommandNames ==
    {"reboot", "status", "screen_list", "screen_switch", "screen_reload",
     "bogus"}
\* the payload of a command message: the command and command_id fields
\* (Missing: absent or not a string) and params (Missing: absent, or without
\* a non-empty screen_id)
Cmds ==
    [command : CommandNames \cup {Missing}, command_id : {"id1", Missing},
     params : {"ok", Missing}]
\* isTestEnvironment: TestMode and GO_TEST_MODE are unset in a deployed build
isTestEnvironment == FALSE
\* the payloads handleCommand passes to sendResponse
ErrorReply == [type |-> "error", status |-> "", command_id |-> Missing]
CommandResponse(c, status) ==
    [type |-> "response", status |-> status, command_id |-> c.command_id]
\* what handleCommand does once command and command_id are extracted and
\* commands are enabled: the switch on the command; execOk tells whether the
\* program it runs (reboot, the screen switch utility) succeeds
runCommand(c, execOk) ==
    LET one(status, eff) ==
            [replies |-> <<CommandResponse(c, status)>>, effects |-> eff]
        utility ==
            IF isTestEnvironment THEN one("success", {})
            ELSE IF execOk THEN one("success", {"utility"})
            ELSE one("error", {"utility"})
    IN CASE c.command = "reboot" ->
               IF isTestEnvironment THEN one("acknowledged", {})
               ELSE IF execOk THEN one("acknowledged", {"reboot"})
               ELSE [replies |-> <<CommandResponse(c, "acknowledged"),
                                   CommandResponse(c, "error")>>,
                     effects |-> {"reboot"}]
         [] c.command = "status" -> one("success", {})
         [] c.command = "screen_list" -> utility
         [] c.command \in {"screen_switch", "screen_reload"} ->
               IF c.params = Missing THEN one("error", {}) ELSE utility
         [] OTHER -> one("error", {})

\* variant: a handleCommand that looks at DisableCommands only in the
\* default branch of its switch
handleCommandUnchecked(c, execOk) ==
    IF c.command = Missing \/ c.command_id = Missing
    THEN [replies |-> <<ErrorReply>>, effects |-> {}]
    ELSE runCommand(c, execOk)

\* handleCommand: the payloads it passes to sendResponse, in order, and the
\* programs it runs
handleCommand(c, execOk) ==
    IF c.command = Missing \/ c.command_id = Missing
    THEN [replies |-> <<ErrorReply>>, effects |-> {}]
    ELSE IF disableCommands
    THEN [replies |-> <<CommandResponse(c, "error")>>, effects |-> {}]
    ELSE runCommand(c, execOk)

\* the frames a sequence of sendResponse calls writes
RECURSIVE sendAll(_)
sendAll(rs) ==
    IF rs = <<>> THEN <<>>
    ELSE sendResponse(Head(rs).type) \o sendAll(Tail(rs))

\* the inbound task reads message m: a message whose raw type is deactivated
\* goes to handleDeactivated, any other to handleMessage
\* (a command message carries payload c)
InboundRead(m, c, execOk) ==
    /\ inbound = "read" /\ connOpen
    /\ IF m.form = "plain" /\ m.type = "deactivated"
       THEN \* handleDeactivated, then close(deactivated)
            /\ IF connected
               THEN /\ inbound' = "sleepDeact"
                    /\ UNCHANGED <<pairedState, chan>>
               ELSE /\ pairedState' = DeleteState
                    /\ chan' = closeOnce("deactivated")
                    /\ inbound' = "off"
            /\ wsEvt' = WsEvt("read", m,
                              IF connected THEN DisconnectFrames(FALSE) ELSE <<>>,
                              "deactivated", FALSE)
            /\ UNCHANGED shutdown
       ELSE LET d == Disposition(m) IN
            CASE d = "violation" ->
                    /\ shutdown' = TRUE
                    /\ IF connected
                       THEN inbound' = "sleepViolation" /\ UNCHANGED pairedState
                       ELSE inbound' = "top" /\ pairedState' = DeleteState
                    /\ wsEvt' = WsEvt("read", m,
                                      IF connected THEN DisconnectFrames(FALSE)
                                      ELSE <<>>,
                                      "none", FALSE)
                    /\ UNCHANGED chan
              [] d = "noKey" ->
                    /\ inbound' = "top"
                    /\ wsEvt' = WsEvt("read", m, sendResponse("error"), "none",
                                      sendResponseErr)
                    /\ UNCHANGED <<shutdown, pairedState, chan>>
              [] d = "ping" ->
                    /\ inbound' = "top"
                    /\ wsEvt' = WsEvt("read", m, sendResponse("pong"), "ping",
                                      sendResponseErr)
                    /\ UNCHANGED <<shutdown, pairedState, chan>>
              [] d = "command" ->
                    /\ inbound' = "top"
                    /\ LET h == handleCommand(c, execOk) IN
                       wsEvt' = [WsEvt("read", m, sendAll(h.replies),
                                       "command", sendResponseErr)
                                 EXCEPT !.cmd = c, !.replies = h.replies,
                                        !.effects = h.effects]
                    /\ UNCHANGED <<shutdown, pairedState, chan>>
              [] d = "deactivated" ->
                    /\ IF connected
                       THEN inbound' = "sleepDeactEnc" /\ UNCHANGED pairedState
                       ELSE inbound' = "top" /\ pairedState' = DeleteState
                    /\ wsEvt' = WsEvt("read", m,
                                      IF connected THEN DisconnectFrames(FALSE)
                                      ELSE <<>>,
                                      "deactivated", FALSE)
                    /\ UNCHANGED <<shutdown, chan>>
              [] OTHER ->
                    /\ inbound' = "top"
                    /\ wsEvt' = WsEvt("read", m,
                                      IF d = "error" THEN handleError ELSE <<>>,
                                      Handler(d), FALSE)
                    /\ UNCHANGED <<shutdown, pairedState, chan>>
    /\ WsFrame
    /\ UNCHANGED <<serverRunning, isShuttingDown, mainPc, wsPc, backoff, retReason,
                   connected, connOpen, statusTask, livenessTask, caller>>

\* the inbound task after the sleep of DisconnectWebSocket: the connection
\* is closed and cleared, then the handler goes on: DeleteState and, for a
\* raw deactivated message, close(deactivated)
InboundAfterSleep ==
    /\ inbound \in {"sleepViolation", "sleepDeact", "sleepDeactEnc"}
    /\ connected' = FALSE /\ connOpen' = FALSE
    /\ pairedState' = DeleteState
    /\ IF inbound = "sleepDeact"
       THEN inbound' = "off" /\ chan' = closeOnce("deactivated")
       ELSE inbound' = "top" /\ UNCHANGED chan
    /\ wsEvt' = WsEvt("afterSleep", NoMsg, <<>>, "none", FALSE)
    /\ WsFrame
    /\ UNCHANGED <<serverRunning, isShuttingDown, mainPc, wsPc, backoff, retReason,
                   shutdown, statusTask, livenessTask, caller>>

\* the status task: one tick of its ticker
StatusTick ==
    /\ statusTask
    /\ IF shutdown
       THEN /\ chan' = closeOnce("done") /\ statusTask' = FALSE
            /\ wsEvt' = WsEvt("status", NoMsg, <<>>, "none", FALSE)
       ELSE /\ statusTask' = ~sendResponseErr
            /\ wsEvt' = WsEvt("status", NoMsg, sendResponse("status"), "none",
                              sendResponseErr)
            /\ UNCHANGED chan
    /\ WsFrame
    /\ UNCHANGED <<serverRunning, isShuttingDown, pairedState, mainPc, wsPc, backoff,
                   retReason, connected, connOpen, shutdown, inbound,
                   livenessTask, caller>>

\* variant: a liveness task that looks at the shutdown flag only
LivenessTickIgnoresState ==
    /\ livenessTask
    /\ IF shutdown
       THEN chan' = closeOnce("done") /\ livenessTask' = FALSE
       ELSE UNCHANGED <<chan, livenessTask>>
    /\ wsEvt' = WsEvt("liveness", NoMsg, <<>>, "none", FALSE)
    /\ WsFrame
    /\ UNCHANGED <<serverRunning, isShuttingDown, pairedState, mainPc, wsPc, backoff,
                   retReason, connected, connOpen, shutdown, inbound,
                   statusTask, caller>>

\* the liveness task: one tick of its ticker
LivenessTick ==
    /\ livenessTask
    /\ IF shutdown
       THEN chan' = closeOnce("done") /\ livenessTask' = FALSE
       ELSE IF ~HasState
            THEN chan' = closeOnce("stateDeleted") /\ livenessTask' = FALSE
            ELSE UNCHANGED <<chan, livenessTask>>
    /\ wsEvt' = WsEvt("liveness", NoMsg, <<>>, "none", FALSE)
    /\ WsFrame
    /\ UNCHANGED <<serverRunning, isShuttingDown, pairedState, mainPc, wsPc, backoff,
                   retReason, connected, connOpen, shutdown, inbound,
                   statusTask, caller>>

\* the status task, the liveness task: its select takes one of the closed
\* channels and the task returns
StatusStop ==
    /\ statusTask /\ chan # "open"
    /\ statusTask' = FALSE
    /\ wsEvt' = WsEvt("statusStop", NoMsg, <<>>, "none", FALSE)
    /\ WsFrame
    /\ UNCHANGED <<serverRunning, isShuttingDown, pairedState, mainPc, wsPc, backoff,
                   retReason, connected, connOpen, shutdown, chan, inbound,
                   livenessTask, caller>>

LivenessStop ==
    /\ livenessTask /\ chan # "open"
    /\ livenessTask' = FALSE
    /\ wsEvt' = WsEvt("livenessStop", NoMsg, <<>>, "none", FALSE)
    /\ WsFrame
    /\ UNCHANGED <<serverRunning, isShuttingDown, pairedState, mainPc, wsPc, backoff,
                   retReason, connected, connOpen, shutdown, chan, inbound,
                   statusTask, caller>>

\* variant: a clearConnection that forgets the connection without closing it
clearConnectionLeavesOpen == connOpen
\* clearConnection: whether the socket is open afterwards (it closes it)
clearConnection == FALSE

\* ConnectWebSocket, its select: a channel is closed; clearConnection, then
\* the decision to reconnect or to return
ConnectSelect ==
    /\ wsPc = "select" /\ chan # "open"
    /\ connected' = FALSE /\ connOpen' = clearConnection
    /\ UNCHANGED backoff
    /\ CASE chan = "done" ->
                IF shutdown
                THEN wsPc' = "idle" /\ retReason' = "shutdown"
                ELSE wsPc' = "loop" /\ UNCHANGED retReason
         [] chan = "stateDeleted" ->
                wsPc' = "idle" /\ retReason' = "stateDeleted"
         [] chan = "deactivated" ->
                wsPc' = "idle" /\ retReason' = "deactivated"
    /\ wsEvt' = WsEvt("select", NoMsg, <<>>, "none", FALSE)
    /\ WsFrame
    /\ UNCHANGED <<serverRunning, isShuttingDown, pairedState, mainPc,
                   shutdown, chan, inbound, statusTask, livenessTask, caller>>

\* the peer or the network closes the connection
PeerClose ==
    /\ connOpen
    /\ connOpen' = FALSE
    /\ wsEvt' = WsEvt("peerClose", NoMsg, <<>>, "none", FALSE)
    /\ WsFrame
    /\ UNCHANGED <<serverRunning, isShuttingDown, pairedState, mainPc, wsPc, backoff,
                   retReason, connected, shutdown, chan, inbound, statusTask,
                   livenessTask, caller>>

\* main.go gracefulShutdown with no pairing server running: when the manager
\* is connected, ShutdownWebSocket(true) up to the sleep of
\* DisconnectWebSocket
GracefulShutdown ==
    /\ ~isShuttingDown /\ ~serverRunning
    /\ isShuttingDown' = TRUE
    /\ IF connected
       THEN /\ shutdown' = TRUE
            /\ caller' = "sleep"
            /\ wsEvt' = WsEvt("shutdown", NoMsg, DisconnectFrames(TRUE), "none",
                              sendResponseErr)
       ELSE /\ wsEvt' = NoWsEvt
            /\ UNCHANGED <<shutdown, caller>>
    /\ WsFrame
    /\ UNCHANGED <<serverRunning, pairedState, mainPc, wsPc, backoff, retReason,
                   connected, connOpen, chan, inbound, statusTask,
                   livenessTask>>

\* ShutdownWebSocket(true) after the sleep of DisconnectWebSocket: the
\* connection is closed and cleared and the call returns
ShutdownAfterSleep ==
    /\ caller = "sleep"
    /\ caller' = "none"
    /\ connected' = FALSE /\ connOpen' = FALSE
    /\ wsEvt' = WsEvt("shutdownReturned", NoMsg, <<>>, "none", FALSE)
    /\ WsFrame
    /\ UNCHANGED <<serverRunning, isShuttingDown, pairedState, mainPc, wsPc, backoff,
                   retReason, shutdown, chan, inbound, statusTask,
                   livenessTask>>

\* the process started with a paired.json on disk
InitWs ==
    /\ now = 1
    /\ pairCode = "" /\ expiry = ZeroTime /\ failCount = 0 /\ pairCodeIP = ""
    /\ ipBlacklist = [ip \in IPs |-> NoEntry]
    /\ ipViolations = [ip \in IPs |-> 0]
    /\ serverRunning = FALSE /\ cancelCleanup = FALSE /\ deferred = 0
    /\ isShuttingDown = FALSE
    /\ ecdhPrivateKey = FALSE /\ ecdhPublicKey = FALSE
    /\ sharedSecret = FALSE /\ sessionKey = FALSE
    /\ codeFile = ""
    /\ pairedState \in [ServerWs : ServerWsValues, SessionKey : SessionKeys,
                        present : {TRUE}]
    /\ resp = NoResp
    /\ WsInit /\ FineInit
    /\ disableCommands \in BOOLEAN
    /\ crypto = NoCrypto

NextWs ==
    \/ MainStart
    \/ MainLoop1
    \/ MainAfterConnect1
    \/ MainLoop2
    \/ MainAfterPairing
    \/ ConnectLoop
    \/ \E ok \in BOOLEAN : Dial(ok)
    \/ InboundTop
    \/ InboundReadFail
    \/ \E m \in InMsgs, c \in Cmds, execOk \in BOOLEAN :
          InboundRead(m, c, execOk)
    \/ InboundAfterSleep
    \/ StatusTick
    \/ StatusStop
    \/ LivenessStop
    \/ LivenessTick
    \/ ConnectSelect
    \/ PeerClose
    \/ GracefulShutdown
    \/ ShutdownAfterSleep
    \/ StopPairingServer
    \/ OperatorReset

SpecWs == InitWs /\ [][NextWs]_vars

\* the same program with its scheduling: main and ConnectWebSocket go on
\* when they can, every task is scheduled, the tickers tick, a sleep ends
\* and a Dial returns
WsFairness ==
    /\ WF_vars(MainStart) /\ WF_vars(MainLoop1) /\ WF_vars(MainAfterConnect1)
    /\ WF_vars(MainLoop2) /\ WF_vars(MainAfterPairing)
    /\ WF_vars(ConnectLoop) /\ WF_vars(\E ok \in BOOLEAN : Dial(ok))
    /\ WF_vars(InboundTop) /\ WF_vars(InboundReadFail)
    /\ WF_vars(InboundAfterSleep)
    /\ WF_vars(StatusTick) /\ WF_vars(LivenessTick)
    /\ WF_vars(StatusStop) /\ WF_vars(LivenessStop)
    /\ WF_vars(ConnectSelect) /\ WF_vars(ShutdownAfterSleep)
SpecWsFair == SpecWs /\ WsFairness


\* ---------------------------------------------------------------- claims
\* "usable" as the data model defines it: the session exists, has not
\* expired and has attempts left
Usable == pairCode # "" /\ now < expiry /\ failCount < MAX_FAIL_COUNT
\* "blacklisted" as the data model defines it: blacklistedUntil is set and
\* in the future
Blacklisted(ip) == ipBlacklist[ip] # NoEntry /\ now < ipBlacklist[ip]
\* everything but the response is left as it was
NothingChanges ==
    UNCHANGED <<now, codeVars, ipVars, serverVars, ecdhVars, codeFile, pairedState>>

\* C1: a confirm request succeeds and writes paired.json only when the
\* requester is not blacklisted, a session exists with now < expiry and
\* failCount < MAX_FAIL_COUNT, the requester is the bound address and the
\* code is the session's code; every other confirm request fails and leaves
\* paired.json as it was.
C1_ConfirmOnlyWhenUsable ==
    [][resp'.kind = "confirm" =>
        LET ok == /\ ~Blacklisted(resp'.ip)
                  /\ Usable
                  /\ resp'.ip = pairCodeIP
                  /\ resp'.code = pairCode
        IN  /\ resp'.status = 200 => ok
            /\ pairedState' # pairedState => ok
            /\ ~ok => /\ resp'.status \in {400, 401, 403, 500}
                      /\ pairedState' = pairedState]_vars

\* C2: a confirm request from the bound address with a code other than the
\* session's, made while the session is usable, is answered 401 "Incorrect
\* code", raises failCount by exactly 1 and changes nothing else (code, bound
\* address, expiry, paired.json, violation counts, blacklist, keys).
C2_WrongCodeCountsOnce ==
    [][(/\ resp'.kind = "confirm"
        /\ Usable
        /\ resp'.ip = pairCodeIP
        /\ resp'.code \in Codes /\ resp'.code # pairCode) =>
            /\ resp'.status = 401 /\ resp'.why = "IncorrectCode"
            /\ failCount' = failCount + 1
            /\ UNCHANGED <<now, pairCode, pairCodeIP, expiry, ipVars, serverVars,
                           ecdhVars, codeFile, pairedState>>]_vars
\* C2 happens: a wrong code of the bound address was just answered, on a
\* session that is still usable
C2_Witness ==
    /\ resp.kind = "confirm" /\ resp.why = "IncorrectCode"
    /\ resp.ip = pairCodeIP /\ resp.code # pairCode
    /\ failCount = 1 /\ Usable

\* C3: failCount moves only up by one per wrong code of the bound address,
\* or back to 0 when the session is replaced or cleared, and never passes
\* MAX_FAIL_COUNT; so MAX_FAIL_COUNT wrong codes on one session exhaust it.
\* On an exhausted session every confirm request of the bound address, the
\* correct code included, is answered 403 "Code expired or max attempts" and
\* changes nothing, and no confirm request from anyone succeeds or writes
\* paired.json.
C3_ExhaustedSessionRejects ==
    [][/\ failCount' <= MAX_FAIL_COUNT
       /\ failCount' # failCount =>
            \/ /\ failCount' = failCount + 1
               /\ resp'.kind = "confirm" /\ resp'.why = "IncorrectCode"
               /\ resp'.ip = pairCodeIP
               /\ pairCode' = pairCode
            \/ /\ failCount' = 0
               /\ pairCode' = "" \/ resp'.kind = "pair"
       /\ (resp'.kind = "confirm" /\ pairCode # "" /\ failCount >= MAX_FAIL_COUNT) =>
            /\ resp'.status # 200
            /\ pairedState' = pairedState
            /\ (resp'.ip = pairCodeIP /\ resp'.code \in Codes) =>
                  /\ resp'.status = 403 /\ resp'.why = "CodeExpired"
                  /\ NothingChanges]_vars
\* C3 happens: an exhausted session that has not expired has just turned
\* down the correct code of the bound address
C3_Witness ==
    /\ resp.kind = "confirm" /\ resp.why = "CodeExpired"
    /\ resp.ip = pairCodeIP /\ resp.code = pairCode
    /\ pairCode # "" /\ failCount = MAX_FAIL_COUNT /\ now < expiry

\* C4: while a usable session exists, a pair request from any address that
\* is not blacklisted is answered with the session's expiry and leaves the
\* session as it was: code, bound address, expiry, failCount, the key pair,
\* the code file, paired.json and the violation counts are unchanged.
C4_IssueKeepsUsableSession ==
    [][(resp'.kind = "pair" /\ Usable /\ ~Blacklisted(resp'.ip)) =>
            /\ resp'.status = 200 /\ resp'.why = "AlreadyActive"
            /\ resp'.expiry = expiry
            /\ UNCHANGED <<now, codeVars, ipViolations, serverVars, ecdhVars,
                           codeFile, pairedState>>]_vars
\* C4 happens: a pair request of another address than the bound one has
\* just been answered from a usable session that has a failed attempt on it
C4_Witness ==
    /\ resp.kind = "pair" /\ resp.why = "AlreadyActive"
    /\ resp.ip # pairCodeIP
    /\ Usable /\ failCount > 0

\* C5: when the session is no longer usable (it expired, or failCount reached
\* MAX_FAIL_COUNT), a pair request from an address that is not blacklisted
\* creates a new session: another code, expiry now + pairingCodeExpiry,
\* failCount 0, the requester as bound address.
C5_IssueReplacesUnusableSession ==
    [][(resp'.kind = "pair" /\ pairCode # "" /\ ~Usable /\ ~Blacklisted(resp'.ip)) =>
            /\ resp'.status = 200 /\ resp'.why = "Generated"
            /\ pairCode' # "" /\ pairCode' # pairCode
            /\ expiry' = now + pairingCodeExpiry
            /\ failCount' = 0
            /\ pairCodeIP' = resp'.ip]_vars

\* C6 as stated: for a session bound to one address, a confirm request with
\* the session's code from any other address is answered 403 "Access denied",
\* leaves paired.json as it was and raises the requester's violation count by
\* exactly 1.
C6_OtherAddressAlways ==
    [][(/\ resp'.kind = "confirm"
        /\ pairCode # "" /\ pairCodeIP # ""
        /\ resp'.ip # pairCodeIP
        /\ resp'.code = pairCode) =>
            /\ resp'.status = 403 /\ resp'.why = "AccessDenied"
            /\ pairedState' = pairedState
            /\ ipViolations' = [ipViolations EXCEPT ![resp'.ip] = @ + 1]]_vars
\* C6, amended: the same for every other address that is not blacklisted
\* when it asks; the session, the keys and the other addresses' counts are
\* left as they were.
C6_OtherAddressNotBlacklisted ==
    [][(/\ resp'.kind = "confirm"
        /\ pairCode # "" /\ pairCodeIP # ""
        /\ resp'.ip # pairCodeIP
        /\ resp'.code = pairCode
        /\ ~Blacklisted(resp'.ip)) =>
            /\ resp'.status = 403 /\ resp'.why = "AccessDenied"
            /\ pairedState' = pairedState
            /\ ipViolations' = [ipViolations EXCEPT ![resp'.ip] = @ + 1]
            /\ UNCHANGED <<codeVars, ecdhVars, codeFile>>]_vars
\* C6 happens: another address than the bound one has just been turned down
\* with the session's code, for the first time
C6_Witness ==
    /\ resp.kind = "confirm" /\ resp.why = "AccessDenied"
    /\ pairCode # "" /\ resp.ip # pairCodeIP /\ resp.code = pairCode
    /\ ipViolations[resp.ip] = 1 /\ ~Blacklisted(resp.ip)

\* C7: recordIPViolation(a) raises a's count by 1; while the new count is
\* below MAX_IP_VIOLATIONS it returns false and a is not blacklisted; when the
\* new count is MAX_IP_VIOLATIONS it returns true and a is blacklisted until
\* now + IP_BLACKLIST_DURATION; no other address is touched.  A blacklisted
\* address stays blacklisted, and isIPBlacklisted says so, at every moment
\* before its entry runs out.
C7_ThresholdBlacklists ==
    [][/\ \A a \in IPs : RecordViolationCall(a) =>
            /\ ipViolations'[a] = ipViolations[a] + 1
            /\ ipViolations'[a] < MAX_IP_VIOLATIONS =>
                  /\ resp'.why = "false"
                  /\ ipBlacklist'[a] = NoEntry
            /\ ipViolations'[a] = MAX_IP_VIOLATIONS =>
                  /\ resp'.why = "true"
                  /\ ipBlacklist'[a] = now + IP_BLACKLIST_DURATION
                  /\ Blacklisted(a)'
            /\ \A o \in IPs \ {a} :
                  /\ ipViolations'[o] = ipViolations[o]
                  /\ ipBlacklist'[o] = ipBlacklist[o]
       /\ \A a \in IPs :
            /\ (Blacklisted(a) /\ now' < ipBlacklist[a]) => Blacklisted(a)'
            /\ (Blacklisted(a) /\ IsBlacklistedCall(a)) => resp'.why = "true"]_vars
\* C7 happens: the call that reached the threshold has just returned true,
\* while another address with violations of its own is not blacklisted
C7_Witness ==
    /\ resp.kind = "recordIPViolation" /\ resp.why = "true"
    /\ ipViolations[resp.ip] = MAX_IP_VIOLATIONS
    /\ ipBlacklist[resp.ip] = now + IP_BLACKLIST_DURATION
    /\ \E o \in IPs \ {resp.ip} : ipViolations[o] > 0 /\ ~Blacklisted(o)

\* C8: for an address that was blacklisted (its count reached
\* MAX_IP_VIOLATIONS) and whose blacklist has run out (the entry has been
\* evicted by isIPBlacklisted, or lies in the past), cleanupBlacklist leaves
\* it not blacklisted and with a count of 0.
C8_SweepForgetsTogether ==
    [][\A a \in IPs :
        (/\ ipViolations[a] >= MAX_IP_VIOLATIONS
         /\ ipBlacklist[a] = NoEntry \/ After(now, ipBlacklist[a])
         /\ CleanupCall) =>
            /\ ~Blacklisted(a)'
            /\ ipViolations'[a] = 0]_vars

\* C9: a pair request and a confirm request (whatever its body) from an
\* address that is blacklisted are answered 403 "Access denied" and change
\* nothing: session, failCount, violation counts, blacklist, keys, files.
C9_BlacklistedDenied ==
    [][(resp'.kind \in {"pair", "confirm"} /\ Blacklisted(resp'.ip)) =>
            /\ resp'.status = 403 /\ resp'.why = "AccessDenied"
            /\ NothingChanges]_vars
\* C9 happens: a blacklisted address has just been denied a confirm request
\* that carried the code of the session
C9_Witness ==
    /\ resp.kind = "confirm" /\ resp.why = "AccessDenied"
    /\ Blacklisted(resp.ip)
    /\ pairCode # "" /\ resp.code = pairCode

\* C10: a successful confirm request ends the session, so a code that has
\* been confirmed is not confirmed again: when the last request handled was a
\* successful confirm, a confirm request handled next does not succeed on
\* the same code, whether or not the deferred shutdown has run in between.
C10_ConfirmSucceedsOnce ==
    [][(resp.kind = "confirm" /\ resp.status = 200) =>
            ~(resp'.kind = "confirm" /\ resp'.status = 200 /\ pairCode' = pairCode)]_vars

\* C11: whenever no pairing session exists (pairCode is empty), the key
\* exchange engine holds no private key, public key, shared secret or session
\* key.
C11_NoKeysWithoutSession ==
    pairCode = "" =>
        /\ ~ecdhPrivateKey /\ ~ecdhPublicKey
        /\ ~sharedSecret /\ ~sessionKey

\* the derivation of the shared secret from the request's server key fails
DerivationFails(key) == key = "invalid" \/ (key = "valid" /\ ~ecdhPrivateKey)

\* C12: a confirm request of the bound address that carries the session's
\* code and a server key, on a session that has not expired and has attempts
\* left, whose key derivation fails, is answered 500 "Key exchange failed" and
\* has no effect: paired.json, the session, failCount, the cleanup task, the
\* pending shutdowns and the keys are as they were.
C12_FailedDerivationNoEffect ==
    [][\A k \in PeerKeys \cup {"invalid"} :
        (/\ Usable /\ ~Blacklisted(pairCodeIP)
         /\ DerivationFails(k)
         /\ resp'.kind = "confirm"
         /\ resp'.ip = pairCodeIP /\ resp'.code = pairCode
         /\ HandleConfirm(pairCodeIP, pairCode, k, TRUE)) =>
            /\ resp'.status = 500 /\ resp'.why = "KeyExchangeFailed"
            /\ NothingChanges]_vars
\* C12 happens: the session's code has just been turned down for a failed
\* key derivation, on a session that is still usable
C12_Witness ==
    /\ resp.kind = "confirm" /\ resp.why = "KeyExchangeFailed"
    /\ resp.ip = pairCodeIP /\ resp.code = pairCode
    /\ Usable /\ cancelCleanup

\* the whole process: main's two loops around the pairing listener and the
\* manager, started with or without a paired.json, with pairing requests of
\* one address
InitMain ==
    /\ now = 1
    /\ pairCode = "" /\ expiry = ZeroTime /\ failCount = 0 /\ pairCodeIP = ""
    /\ ipBlacklist = [ip \in IPs |-> NoEntry]
    /\ ipViolations = [ip \in IPs |-> 0]
    /\ serverRunning = FALSE /\ cancelCleanup = FALSE /\ deferred = 0
    /\ isShuttingDown = FALSE
    /\ ecdhPrivateKey = FALSE /\ ecdhPublicKey = FALSE
    /\ sharedSecret = FALSE /\ sessionKey = FALSE
    /\ codeFile = ""
    /\ pairedState \in {NoState, [ServerWs |-> "ws", SessionKey |-> "K",
                                  present |-> TRUE]}
    /\ resp = NoResp
    /\ WsInit /\ FineInit
    /\ disableCommands = FALSE
    /\ crypto = NoCrypto

NextMain ==
    \/ Tick
    \/ MainStart
    \/ MainLoop1
    \/ MainAfterConnect1
    \/ MainLoop2
    \/ MainAfterPairing
    \/ MainAfterConnect2
    \/ HandlePair("ipA", TRUE)
    \/ \E c \in Codes, k \in PeerKeys : HandleConfirm("ipA", c, k, TRUE)
    \/ Sweep
    \/ DeferredShutdown
    \/ ConnectLoop
    \/ \E ok \in BOOLEAN : Dial(ok)
    \/ InboundTop
    \/ InboundReadFail
    \/ \E m \in InMsgs, c \in Cmds, execOk \in BOOLEAN :
          InboundRead(m, c, execOk)
    \/ InboundAfterSleep
    \/ StatusTick
    \/ StatusStop
    \/ LivenessStop
    \/ LivenessTick
    \/ ConnectSelect
    \/ PeerClose
    \/ GracefulShutdown
    \/ ShutdownAfterSleep
    \/ StopPairingServer
    \/ OperatorReset

SpecMain == InitMain /\ [][NextMain]_vars

\* ---------------------------------------------------------------- claims
\* about the WebSocket manager
\* the last step read an inbound message that is not an EncryptedEnvelope
ReadPlain == wsEvt.op = "read" /\ wsEvt.msg.form = "plain"
\* the application messages among the frames the last step wrote
AppFrames(e) == {i \in 1..Len(e.wire) : e.wire[i] # CloseFrame}
\* ConnectWebSocket has started a dial that has not returned
Dialing == wsPc = "dialing"
\* the connection is torn down, the descriptor is gone, Connect has returned
TornDown == ~connected /\ ~HasState /\ wsPc = "idle"

\* C13: reading an inbound message that is not an EncryptedEnvelope
\* dispatches it neither as a ping nor as a command nor as an error and
\* writes no application message (so no disconnect envelope); from then on
\* ConnectWebSocket never dials, and eventually the connection is cleared,
\* the descriptor is deleted and ConnectWebSocket has returned.
C13_PlaintextIsViolation ==
    /\ [][ReadPlain' =>
            /\ wsEvt'.dispatched \notin {"ping", "command", "error"}
            /\ AppFrames(wsEvt') = {}]_vars
    /\ [](ReadPlain => [](~Dialing))
    /\ (ReadPlain ~> TornDown)
C13_Witness ==
    /\ wsEvt.op = "read" /\ wsEvt.msg = [form |-> "plain", type |-> "ping", decOk |-> FALSE]
    /\ wsEvt.wire = <<CloseFrame>>
    /\ shutdown /\ inbound = "sleepViolation" /\ HasState /\ wsPc = "select"

\* C14: reading an EncryptedEnvelope that cannot be decrypted (its payload
\* does not decrypt under the stored key, or no session key is stored) is
\* handled as a protocol violation: nothing is dispatched, no application
\* message is written, the shutdown flag is set and the descriptor is
\* deleted at once or after the disconnect that has begun.
C14_UndecryptableIsViolation ==
    [][(/\ wsEvt'.op = "read" /\ wsEvt'.msg.form = "enc"
        /\ (~wsEvt'.msg.decOk \/ GetSessionKey = "")) =>
            /\ wsEvt'.dispatched = "none"
            /\ AppFrames(wsEvt') = {}
            /\ shutdown'
            /\ (inbound' = "sleepViolation" \/ ~HasState')]_vars

\* the last step read a message that reached handleDeactivated
ReadDeactivated == wsEvt.op = "read" /\ wsEvt.dispatched = "deactivated"

\* C15: a deactivated message, in plaintext or in an envelope that decrypts
\* under the stored key, reaches handleDeactivated; from then on
\* ConnectWebSocket never dials, and eventually IsConnected is false, no
\* descriptor is stored and ConnectWebSocket has returned.
C15_DeactivatedEndsConnection ==
    /\ [][(/\ wsEvt'.op = "read" /\ wsEvt'.msg.type = "deactivated"
           /\ (wsEvt'.msg.form = "plain" \/ GetSessionKey # "")) =>
               wsEvt'.dispatched = "deactivated"]_vars
    /\ [](ReadDeactivated => [](~Dialing))
    /\ (ReadDeactivated ~> TornDown)
C15_Witness ==
    /\ retReason = "deactivated" /\ wsPc = "idle"
    /\ ~HasState /\ ~connected /\ ~shutdown

\* C16: every application message a step writes (status, pong, command
\* response, error, disconnect notice) is an EncryptedEnvelope under the
\* stored session key; when no session key is stored no application message
\* is written, and a step that sends reports an error.
C16_WritesAreEncrypted ==
    [][/\ \A i \in AppFrames(wsEvt') :
            /\ wsEvt'.wire[i].enc
            /\ wsEvt'.wire[i].key = GetSessionKey
            /\ GetSessionKey # ""
            /\ wsEvt'.wire[i].type \in
                   {"status", "pong", "response", "error", "disconnect"}
       /\ GetSessionKey = "" =>
            /\ AppFrames(wsEvt') = {}
            /\ (wsEvt'.op = "status" /\ ~shutdown) => wsEvt'.sendErr
            /\ wsEvt'.op = "shutdown" => wsEvt'.sendErr
            /\ (wsEvt'.op = "read" /\ wsEvt'.msg.form = "enc") => wsEvt'.sendErr]_vars
C16_Witness ==
    /\ wsEvt.op = "shutdown"
    /\ wsEvt.wire = <<[type |-> "disconnect", enc |-> TRUE, key |-> "K"], CloseFrame>>
    /\ GetSessionKey = "K" /\ ~wsEvt.sendErr

\* this step starts a dial; this step makes ConnectWebSocket return
DialStarts == wsPc # "dialing" /\ wsPc' = "dialing"
Returns ==
    /\ wsPc' = "idle" /\ retReason' # "none"
    /\ (wsPc # "idle" \/ retReason' # retReason)

\* C17: ConnectWebSocket starts a dial only while shutdown is not requested
\* and the descriptor exists, and whenever it returns, shutdown is requested
\* or the descriptor is absent.
C17_ConnectReturnsOnlyWhenDone ==
    [][/\ DialStarts => (~shutdown /\ HasState)
       /\ Returns => (shutdown' \/ ~HasState')]_vars

\* the descriptor is gone while ConnectWebSocket holds a connection
RemovedWhileUp == ~HasState /\ connected /\ wsPc = "select"
\* the last step wrote a disconnect envelope
WroteDisconnect ==
    \E i \in 1..Len(wsEvt.wire) : wsEvt.wire[i].type = "disconnect"

\* C18: the first tick of the liveness task that finds the descriptor absent
\* signals teardown and ends the task; once the descriptor is gone while a
\* connection is up, no disconnect envelope is written and no dial is made
\* any more, and eventually the connection is cleared and ConnectWebSocket
\* has returned.
C18_ExternalRemovalEndsConnection ==
    /\ [][(wsEvt'.op = "liveness" /\ livenessTask /\ ~HasState) =>
            (chan' # "open" /\ ~livenessTask')]_vars
    /\ [](RemovedWhileUp => [](~Dialing /\ ~WroteDisconnect))
    /\ (RemovedWhileUp ~> TornDown)
C18_Witness ==
    /\ retReason = "stateDeleted" /\ wsPc = "idle"
    /\ ~HasState /\ ~connected /\ ~shutdown

\* a call of ShutdownWebSocket has not returned yet: the one of
\* gracefulShutdown (sendNotice true) or the one of handleMessage (false)
ShutdownInProgress == caller = "sleep" \/ inbound = "sleepViolation"

MainMoves == mainPc' # mainPc
\* StartPairingServerOnPort has returned and no process shutdown stopped the
\* listener: the goroutine of a successful confirmation did
ListenerStoppedAfterSuccess ==
    mainPc = "pairing" /\ ~serverRunning /\ ~isShuttingDown
\* ConnectWebSocket has returned to main
ConnectReturned == mainPc \in {"connect1", "connect2"} /\ wsPc = "idle"

\* C20: when the pairing listener has stopped after a successful
\* confirmation, main's next step calls ConnectWebSocket; when
\* ConnectWebSocket has returned with the descriptor absent and no process
\* shutdown in progress, main goes to the pairing loop, and the pairing loop
\* starts the listener; so main never leaves its loops while the device is
\* unpaired and no process shutdown is in progress.
C20_ControlFlow ==
    /\ [][(ListenerStoppedAfterSuccess /\ MainMoves) => mainPc' = "connect2"]_vars
    /\ [][(ConnectReturned /\ ~HasState /\ ~isShuttingDown /\ MainMoves) =>
            mainPc' = "loop2"]_vars
    /\ [][(mainPc = "loop2" /\ ~isShuttingDown /\ MainMoves) =>
            (mainPc' = "pairing" /\ serverRunning')]_vars
    /\ [](mainPc = "exit" => (isShuttingDown \/ HasState))

\* the step read a command message that carries a command and a command_id
\* and was dispatched to handleCommand
ReadCommand ==
    /\ wsEvt.op = "read" /\ wsEvt.dispatched = "command"
    /\ wsEvt.cmd.command # Missing /\ wsEvt.cmd.command_id # Missing

\* C21: with DisableCommands set, a command message (reboot, status, a screen
\* command, an unknown command) that carries a command and a command_id is
\* answered by exactly one response, of status error and with the command's
\* command_id, written as one frame; no program is run (no reboot, no screen
\* utility) and the connection, the shutdown flag, the terminal signal and
\* the descriptor are left as they were.
C21_DisabledCommandsAreRejected ==
    [][(ReadCommand' /\ disableCommands) =>
         /\ wsEvt'.replies =
                <<[type |-> "response", status |-> "error",
                   command_id |-> wsEvt'.cmd.command_id]>>
         /\ Len(wsEvt'.wire) = 1
         /\ wsEvt'.effects = {}
         /\ UNCHANGED <<pairedState, shutdown, chan, connected, connOpen>>]_vars
C21_Witness ==
    /\ disableCommands /\ ReadCommand
    /\ wsEvt.cmd.command = "reboot"
    /\ Len(wsEvt.replies) = 1 /\ wsEvt.replies[1].status = "error"

\* ---------------------------------------------------------------- the
\* message cipher (MessageCrypto: EncryptMessage, DecryptMessage, PKCS7)
\* aes.BlockSize, scaled from 16 bytes to 2 so that payloads of one and of
\* several blocks can be enumerated
BlockSize == 2
\* a byte, scaled from 8 bits to 2
ByteMax == 3
Bytes == 0 .. ByteMax
\* the longest ciphertext of an enumerated payload, in blocks
MaxBlocks == 2
BytesOfLen(n) == [1 .. n -> Bytes]
\* the decoded payloads given to DecryptMessage: every byte string of up to
\* an IV and MaxBlocks blocks
Payloads == UNION {BytesOfLen(n) : n \in 0 .. BlockSize * (1 + MaxBlocks)}

\* a base64 string: one StdEncoding.DecodeString rejects, or the encoding
\* of a byte string
NotBase64 == [valid |-> FALSE, bytes |-> <<>>]
EncodeToString(bs) == [valid |-> TRUE, bytes |-> bs]
DecodeString(str) ==
    IF str.valid THEN [err |-> FALSE, bytes |-> str.bytes]
    ELSE [err |-> TRUE, bytes |-> <<>>]
\* a session key as it reaches the cipher: text that is not base64, or the
\* encoding of a key of some length in bytes (val tells two keys of one
\* length apart)
KeyLens == {0, 16, 24, 31, 32}
NotBase64Key == [valid |-> FALSE, bytes |-> [len |-> 0, val |-> 0]]
SessionKeysB64 ==
    {NotBase64Key}
    \cup {[valid |-> TRUE, bytes |-> [len |-> l, val |-> v]] :
             l \in KeyLens, v \in 1 .. 2}
\* aes.NewCipher: KeySizeError unless the key has 16, 24 or 32 bytes
NewCipherErr(key) == key.len \notin {16, 24, 32}

\* the block cipher under a key: a permutation of the blocks that depends
\* on the key, and its inverse
KeyShift(key) == (key.val + key.len \div 8) % (ByteMax + 1)
EncryptBlock(key, b) ==
    [i \in 1 .. BlockSize |->
        (b[BlockSize + 1 - i] + KeyShift(key)) % (ByteMax + 1)]
DecryptBlock(key, b) ==
    [i \in 1 .. BlockSize |->
        (b[BlockSize + 1 - i] + (ByteMax + 1) - KeyShift(key)) % (ByteMax + 1)]
\* bitwise exclusive or of two bytes, and of two blocks
Xor(a, b) ==
    (((a % 2) + (b % 2)) % 2) + 2 * (((a \div 2) + (b \div 2)) % 2)
XorBlock(x, y) == [i \in 1 .. BlockSize |-> Xor(x[i], y[i])]
\* cipher.NewCBCEncrypter(block, iv).CryptBlocks
RECURSIVE CBCEncrypt(_, _, _)
CBCEncrypt(key, prev, data) ==
    IF data = <<>> THEN <<>>
    ELSE LET c == EncryptBlock(key, XorBlock(SubSeq(data, 1, BlockSize), prev))
         IN c \o CBCEncrypt(key, c, SubSeq(data, BlockSize + 1, Len(data)))
\* cipher.NewCBCDecrypter(block, iv).CryptBlocks
RECURSIVE CBCDecrypt(_, _, _)
CBCDecrypt(key, prev, data) ==
    IF data = <<>> THEN <<>>
    ELSE LET c == SubSeq(data, 1, BlockSize)
         IN XorBlock(DecryptBlock(key, c), prev)
                \o CBCDecrypt(key, c, SubSeq(data, BlockSize + 1, Len(data)))

\* applyPKCS7Padding
applyPKCS7Padding(data, blockSize) ==
    LET padding == blockSize - (Len(data) % blockSize)
    IN data \o [i \in 1 .. padding |-> padding]
\* the test removePKCS7Padding makes on the last byte
PaddingRejected(padding, length) == padding > length \/ padding = 0
\* removePKCS7Padding
removePKCS7Padding(data) ==
    LET length == Len(data) IN
    IF length = 0 THEN [err |-> "data is empty", data |-> <<>>]
    ELSE LET padding == data[length] IN
         IF PaddingRejected(padding, length)
         THEN [err |-> "invalid padding", data |-> <<>>]
         ELSE IF \E i \in length - padding + 1 .. length : data[i] # padding
         THEN [err |-> "invalid padding", data |-> <<>>]
         ELSE [err |-> "", data |-> SubSeq(data, 1, length - padding)]

\* messages and their JSON: three messages whose JSON has one, two and three
\* bytes, and a value json.Marshal rejects
Messages == {"m1", "m2", "m3", "unsupported"}
NoMessage == ""
Marshal(m) ==
    CASE m = "m1" -> [err |-> FALSE, json |-> <<1>>]
      [] m = "m2" -> [err |-> FALSE, json |-> <<2, 1>>]
      [] m = "m3" -> [err |-> FALSE, json |-> <<3, 0, 2>>]
      [] OTHER -> [err |-> TRUE, json |-> <<>>]
Unmarshal(json) ==
    IF \E m \in Messages : ~Marshal(m).err /\ Marshal(m).json = json
    THEN [err |-> FALSE,
          m |-> CHOOSE m \in Messages : ~Marshal(m).err /\ Marshal(m).json = json]
    ELSE [err |-> TRUE, m |-> NoMessage]

\* a read of aes.BlockSize bytes from rand.Reader: an error, or the bytes
RandReads ==
    {[ok |-> FALSE, iv |-> [i \in 1 .. BlockSize |-> 0]]}
    \cup [ok : {TRUE}, iv : BytesOfLen(BlockSize)]

\* variant: an EncryptMessage under a constant IV
EncryptMessageFixedIV(message, sessionKeyB64, rnd) ==
    LET mj == Marshal(message)
        key == DecodeString(sessionKeyB64)
        iv == [i \in 1 .. BlockSize |-> 0]
    IN IF mj.err THEN [err |-> "failed to marshal message", payload |-> NotBase64]
       ELSE IF key.err
       THEN [err |-> "failed to decode session key", payload |-> NotBase64]
       ELSE IF NewCipherErr(key.bytes)
       THEN [err |-> "failed to create cipher", payload |-> NotBase64]
       ELSE IF ~rnd.ok
       THEN [err |-> "failed to generate IV", payload |-> NotBase64]
       ELSE [err |-> "",
             payload |->
                 EncodeToString(
                     iv \o CBCEncrypt(key.bytes, iv,
                                      applyPKCS7Padding(mj.json, BlockSize)))]

\* EncryptMessage; rnd is what the read of rand.Reader gives
EncryptMessage(message, sessionKeyB64, rnd) ==
    LET mj == Marshal(message)
        key == DecodeString(sessionKeyB64)
    IN IF mj.err THEN [err |-> "failed to marshal message", payload |-> NotBase64]
       ELSE IF key.err
       THEN [err |-> "failed to decode session key", payload |-> NotBase64]
       ELSE IF NewCipherErr(key.bytes)
       THEN [err |-> "failed to create cipher", payload |-> NotBase64]
       ELSE IF ~rnd.ok
       THEN [err |-> "failed to generate IV", payload |-> NotBase64]
       ELSE [err |-> "",
             payload |->
                 EncodeToString(
                     rnd.iv \o CBCEncrypt(key.bytes, rnd.iv,
                                          applyPKCS7Padding(mj.json, BlockSize)))]

\* DecryptMessage; "panic" is the panic of CryptBlocks on input that is not
\* a whole number of blocks
DecryptMessage(encryptedMessageB64, sessionKeyB64) ==
    LET em == DecodeString(encryptedMessageB64)
        key == DecodeString(sessionKeyB64)
        Fail(e) == [err |-> e, m |-> NoMessage]
    IN IF em.err THEN Fail("failed to decode encrypted message")
       ELSE IF key.err THEN Fail("failed to decode session key")
       ELSE IF Len(em.bytes) < BlockSize THEN Fail("encrypted message too short")
       ELSE IF NewCipherErr(key.bytes) THEN Fail("failed to create cipher")
       ELSE LET iv == SubSeq(em.bytes, 1, BlockSize)
                encryptedData == SubSeq(em.bytes, BlockSize + 1, Len(em.bytes))
            IN IF Len(encryptedData) % BlockSize # 0 THEN Fail("panic")
               ELSE LET padded == CBCDecrypt(key.bytes, iv, encryptedData)
                        mj == removePKCS7Padding(padded)
                    IN IF mj.err # "" THEN Fail(mj.err)
                       ELSE IF Unmarshal(mj.data).err
                       THEN Fail("failed to unmarshal message")
                       ELSE [err |-> "", m |-> Unmarshal(mj.data).m]

\* the inputs of a call: a message, a key and two reads of rand.Reader for
\* two EncryptMessage calls, or a payload and a key for DecryptMessage
CryptoInputs ==
    [op : {"encryptInput"}, message : Messages, key : SessionKeysB64,
     rnd1 : RandReads, rnd2 : RandReads, payload : {NotBase64}]
    \cup [op : {"decryptInput"}, message : {NoMessage}, key : SessionKeysB64,
          rnd1 : {CHOOSE r \in RandReads : ~r.ok},
          rnd2 : {CHOOSE r \in RandReads : ~r.ok},
          payload : {NotBase64} \cup {EncodeToString(bs) : bs \in Payloads}]

InitCrypto ==
    /\ now = 1
    /\ pairCode = "" /\ expiry = ZeroTime /\ failCount = 0 /\ pairCodeIP = ""
    /\ ipBlacklist = [ip \in IPs |-> NoEntry]
    /\ ipViolations = [ip \in IPs |-> 0]
    /\ serverRunning = FALSE /\ cancelCleanup = FALSE /\ deferred = 0
    /\ isShuttingDown = FALSE
    /\ ecdhPrivateKey = FALSE /\ ecdhPublicKey = FALSE
    /\ sharedSecret = FALSE /\ sessionKey = FALSE
    /\ codeFile = "" /\ pairedState = NoState
    /\ resp = NoResp
    /\ WsInit /\ FineInit
    /\ disableCommands = FALSE
    /\ crypto \in CryptoInputs

\* what no call of the cipher changes
CryptoFrame ==
    UNCHANGED <<now, codeVars, ipVars, serverVars, ecdhVars, codeFile,
                pairedState, resp, mainPc, wsPc, backoff, retReason, connected,
                connOpen, shutdown, chan, inbound, statusTask, livenessTask,
                caller, disableCommands, wsEvt, fineVars>>

\* two EncryptMessage calls on the same message and key, each followed by
\* DecryptMessage of its payload under that key
EncryptCalls ==
    /\ crypto.op = "encryptInput"
    /\ LET e1 == EncryptMessage(crypto.message, crypto.key, crypto.rnd1)
           e2 == EncryptMessage(crypto.message, crypto.key, crypto.rnd2)
       IN crypto' =
            [op |-> "encrypt", message |-> crypto.message, key |-> crypto.key,
             rnd1 |-> crypto.rnd1, rnd2 |-> crypto.rnd2,
             enc1 |-> e1, enc2 |-> e2,
             dec1 |-> IF e1.err = "" THEN DecryptMessage(e1.payload, crypto.key)
                      ELSE [err |-> "not called", m |-> NoMessage],
             dec2 |-> IF e2.err = "" THEN DecryptMessage(e2.payload, crypto.key)
                      ELSE [err |-> "not called", m |-> NoMessage]]
    /\ CryptoFrame

\* one DecryptMessage call
DecryptCall ==
    /\ crypto.op = "decryptInput"
    /\ crypto' =
         [op |-> "decrypt", payload |-> crypto.payload, key |-> crypto.key,
          dec |-> DecryptMessage(crypto.payload, crypto.key)]
    /\ CryptoFrame

NextCrypto == EncryptCalls \/ DecryptCall

SpecCrypto == InitCrypto /\ [][NextCrypto]_vars

\* the key decodes to exactly 32 bytes
Key32(k) == k.valid /\ k.bytes.len = 32
\* one of the two errors of a key that gives no cipher
InvalidKey(err) ==
    err \in {"failed to decode session key", "failed to create cipher"}

PaddedOf(bs, k) ==
    CBCDecrypt(k, SubSeq(bs, 1, BlockSize), SubSeq(bs, BlockSize + 1, Len(bs)))

\* C23: under a key that gives a cipher, DecryptMessage fails with
\* "encrypted message too short" on every payload shorter than one block,
\* and with "invalid padding" on every payload of an IV and whole blocks
\* whose plaintext ends in a byte that is 0, that exceeds the block size, or
\* that differs from one of the trailing bytes it counts.
C23_DecryptRejects ==
    (/\ crypto.op = "decrypt" /\ crypto.payload.valid
     /\ crypto.key.valid /\ ~NewCipherErr(crypto.key.bytes))
    => LET bs == crypto.payload.bytes IN
       /\ Len(bs) < BlockSize => crypto.dec.err = "encrypted message too short"
       /\ (Len(bs) >= 2 * BlockSize /\ Len(bs) % BlockSize = 0)
            => LET padded == PaddedOf(bs, crypto.key.bytes)
                   last == padded[Len(padded)]
               IN (\/ last = 0
                   \/ last > BlockSize
                   \/ \E i \in 1 .. Len(padded) :
                         i > Len(padded) - last /\ padded[i] # last)
                  => crypto.dec.err = "invalid padding"

\* C24: EncryptMessage and DecryptMessage fail with a key error, and give
\* no payload and no message, for every session key that does not decode to
\* exactly 32 bytes (the message has a JSON form, the random source
\* delivers, the payload is base64 of at least one block).
C24_KeyMustBe32Bytes ==
    /\ (/\ crypto.op = "encrypt" /\ ~Key32(crypto.key)
        /\ ~Marshal(crypto.message).err /\ crypto.rnd1.ok)
       => /\ InvalidKey(crypto.enc1.err)
          /\ crypto.enc1.payload = NotBase64
    /\ (/\ crypto.op = "decrypt" /\ ~Key32(crypto.key)
        /\ crypto.payload.valid /\ Len(crypto.payload.bytes) >= BlockSize)
       => /\ InvalidKey(crypto.dec.err)
          /\ crypto.dec.m = NoMessage

\* ---------------------------------------------------------------- the
\* ECDH engine (utils/ecdh.go) driven directly
\* the calls that succeeded since the last ClearECDHKeys are logged, up to
\* MaxCalls of them
MaxCalls == 6
\* the serverPublicKeyB64 values: not base64, base64 of bytes that are not a
\* P-256 point, base64 of a P-256 point
ServerPublicKeys == {"notBase64", "notOnCurve", "valid"}
\* the info strings of DeriveSessionKey
Infos == {"info1", "info2"}
NoEcdhLog == [op |-> "ecdh", log |-> <<>>]

\* the result of a call of the engine: its name, its argument, its error
EcdhResp(kind, arg, err) ==
    [NoResp EXCEPT !.kind = kind, !.code = arg, !.why = err]

\* variant: a DeriveSessionKey that does not look at sharedSecret
DeriveSessionKeyErrNoCheck == ""
\* DeriveSharedSecret, DeriveSessionKey: the error returned ("" for nil).
\* ECDH on a parsed P-256 point and a read of 32 bytes from HKDF-SHA256 do
\* not fail.
DeriveSharedSecretErr(serverPublicKeyB64) ==
    IF ~ecdhPrivateKey THEN "no client private key available"
    ELSE IF serverPublicKeyB64 = "notBase64"
    THEN "failed to decode server public key"
    ELSE IF serverPublicKeyB64 = "notOnCurve"
    THEN "failed to parse server public key"
    ELSE ""
DeriveSessionKeyErr ==
    IF ~sharedSecret THEN "no shared secret available" ELSE ""

\* what no call of the engine changes
EcdhFrame ==
    UNCHANGED <<now, codeVars, ipVars, serverVars, codeFile, pairedState,
                mainPc, wsPc, backoff, retReason, connected, connOpen, shutdown, chan,
                inbound, statusTask, livenessTask, caller, disableCommands,
                wsEvt, fineVars>>
Logged(call) ==
    crypto' = [crypto EXCEPT !.log = Append(@, call)]

\* GenerateECDHKeyPair; genOk tells whether curve.GenerateKey succeeds
GenerateECDHKeyPairCall(genOk) ==
    /\ Len(crypto.log) < MaxCalls
    /\ IF genOk
       THEN /\ ecdhPrivateKey' = TRUE /\ ecdhPublicKey' = TRUE
            /\ UNCHANGED <<sharedSecret, sessionKey>>
            /\ Logged("GenerateECDHKeyPair")
            /\ resp' = EcdhResp("GenerateECDHKeyPair", "", "")
       ELSE /\ UNCHANGED <<ecdhVars, crypto>>
            /\ resp' = EcdhResp("GenerateECDHKeyPair", "",
                                "failed to generate ECDH private key")
    /\ EcdhFrame

\* DeriveSharedSecret
DeriveSharedSecretCall(serverPublicKeyB64) ==
    /\ Len(crypto.log) < MaxCalls
    /\ LET err == DeriveSharedSecretErr(serverPublicKeyB64) IN
       /\ resp' = EcdhResp("DeriveSharedSecret", serverPublicKeyB64, err)
       /\ IF err = ""
          THEN /\ sharedSecret' = TRUE
               /\ UNCHANGED <<ecdhPrivateKey, ecdhPublicKey, sessionKey>>
               /\ Logged("DeriveSharedSecret")
          ELSE UNCHANGED <<ecdhVars, crypto>>
    /\ EcdhFrame

\* DeriveSessionKey
DeriveSessionKeyCall(info) ==
    /\ Len(crypto.log) < MaxCalls
    /\ LET err == DeriveSessionKeyErr IN
       /\ resp' = EcdhResp("DeriveSessionKey", info, err)
       /\ IF err = ""
          THEN /\ sessionKey' = TRUE
               /\ UNCHANGED <<ecdhPrivateKey, ecdhPublicKey, sharedSecret>>
               /\ Logged("DeriveSessionKey")
          ELSE UNCHANGED <<ecdhVars, crypto>>
    /\ EcdhFrame

\* ClearECDHKeys
ClearECDHKeysCall ==
    /\ ClearECDHKeys
    /\ crypto' = NoEcdhLog
    /\ resp' = EcdhResp("ClearECDHKeys", "", "")
    /\ EcdhFrame

InitEcdh ==
    /\ now = 1
    /\ pairCode = "" /\ expiry = ZeroTime /\ failCount = 0 /\ pairCodeIP = ""
    /\ ipBlacklist = [ip \in IPs |-> NoEntry]
    /\ ipViolations = [ip \in IPs |-> 0]
    /\ serverRunning = FALSE /\ cancelCleanup = FALSE /\ deferred = 0
    /\ isShuttingDown = FALSE
    /\ ecdhPrivateKey = FALSE /\ ecdhPublicKey = FALSE
    /\ sharedSecret = FALSE /\ sessionKey = FALSE
    /\ codeFile = "" /\ pairedState = NoState
    /\ resp = NoResp
    /\ WsInit /\ FineInit
    /\ disableCommands = FALSE
    /\ crypto = NoEcdhLog

NextEcdh ==
    \/ \E genOk \in BOOLEAN : GenerateECDHKeyPairCall(genOk)
    \/ \E k \in ServerPublicKeys : DeriveSharedSecretCall(k)
    \/ \E info \in Infos : DeriveSessionKeyCall(info)
    \/ ClearECDHKeysCall

SpecEcdh == InitEcdh /\ [][NextEcdh]_vars

\* the logged calls hold call a, then b, then c, in that order
InOrder(log, a, b, c) ==
    \E i, j, l \in 1 .. Len(log) :
        i < j /\ j < l /\ log[i] = a /\ log[j] = b /\ log[l] = c
\* the step was a call of the engine that returned an error
EcdhFailed == resp'.kind # "none" /\ resp'.why # ""

\* C25: a DeriveSharedSecret call with no GenerateECDHKeyPair since the last
\* ClearECDHKeys fails with "no client private key available"; a
\* DeriveSessionKey call with no DeriveSharedSecret since the last
\* ClearECDHKeys fails with "no shared secret available"; a call that fails
\* leaves the four keys as they were; and a session key comes into
\* existence only in a DeriveSessionKey call that follows, since the last
\* ClearECDHKeys, a GenerateECDHKeyPair and then a DeriveSharedSecret.
C25_KeyStateMachine ==
    [][/\ (resp'.kind = "DeriveSharedSecret"
           /\ \A i \in 1 .. Len(crypto.log) : crypto.log[i] # "GenerateECDHKeyPair")
          => resp'.why = "no client private key available"
       /\ (resp'.kind = "DeriveSessionKey"
           /\ \A i \in 1 .. Len(crypto.log) : crypto.log[i] # "DeriveSharedSecret")
          => resp'.why = "no shared secret available"
       /\ EcdhFailed => UNCHANGED ecdhVars
       /\ (sessionKey' /\ ~sessionKey)
          => /\ resp'.kind = "DeriveSessionKey" /\ resp'.why = ""
             /\ InOrder(crypto'.log, "GenerateECDHKeyPair",
                        "DeriveSharedSecret", "DeriveSessionKey")]_vars
C25_Witness ==
    /\ crypto.op = "ecdh" /\ sessionKey
    /\ resp.kind = "DeriveSessionKey" /\ resp.why = ""
    /\ crypto.log = <<"GenerateECDHKeyPair", "DeriveSharedSecret",
                      "DeriveSessionKey">>

\* the step read a message that decrypted under the stored session key to a
\* message of type error, of a type handleMessage does not know, or without
\* a type
ReadIgnored ==
    /\ wsEvt.op = "read" /\ wsEvt.msg.form = "enc" /\ wsEvt.msg.decOk
    /\ wsEvt.msg.type \in {"error", "other", Missing}
    /\ GetSessionKey # ""

\* C26: reading a message that decrypts to a message of type error, of an
\* unknown type or without a type changes nothing: the connection stays
\* registered and open, shutdownRequested and the terminal signal stay as
\* they were, the descriptor and the tasks stay, Connect stays where it is,
\* and nothing is written.
C26_IgnoredMessagesChangeNothing ==
    [][ReadIgnored' =>
         /\ wsEvt'.dispatched = (IF wsEvt'.msg.type = "error" THEN "error"
                                 ELSE "none")
         /\ wsEvt'.wire = <<>> /\ wsEvt'.replies = <<>> /\ wsEvt'.effects = {}
         /\ ~wsEvt'.sendErr
         /\ inbound' = "top"
         /\ UNCHANGED <<pairedState, shutdown, chan, connected, connOpen,
                        wsPc, backoff, retReason, statusTask, livenessTask, mainPc,
                        caller, isShuttingDown, serverRunning>>]_vars
C26_Witness ==
    /\ ReadIgnored /\ wsEvt.msg.type = Missing
    /\ connected /\ connOpen /\ ~shutdown /\ HasState /\ chan = "open"

\* main calls ConnectWebSocket with the descriptor a pairing has just
\* persisted, and no shutdown of the process is in progress
ConnectAfterPairing ==
    mainPc = "pairing" /\ mainPc' = "connect2" /\ ~isShuttingDown'

\* C27: when main calls ConnectWebSocket after a pairing, with no shutdown
\* of the process in progress, shutdownRequested is clear, so that the call
\* goes on to dial: a flag raised by the teardown of an earlier connection
\* (plaintext message, undecryptable message) is not left set.
C27_FlagClearedAcrossPairing ==
    [][ConnectAfterPairing => ~shutdown']_vars

\* C28: once one of the three channels of a connection is closed, no task
\* closes a channel of that connection again, under every interleaving of
\* the inbound, status and liveness tasks: the closed channel stays the one
\* that was closed first until the next connection makes new channels.
C28_SignalClosedOnce ==
    [][chan # "open" =>
         \/ chan' = chan
         \/ chan' = "open" /\ wsEvt'.op = "dialed"]_vars
\* the liveness task ends on a missing descriptor after the inbound task
\* has closed deactivated
C28_Witness ==
    /\ chan = "deactivated" /\ wsEvt.op = "liveness" /\ ~livenessTask
    /\ ~shutdown /\ ~HasState

\* the status task has just failed to send a heartbeat on the connection
\* ConnectWebSocket is waiting on
HeartbeatFailed ==
    /\ wsEvt.op = "status" /\ wsEvt.sendErr /\ connected /\ wsPc = "select"
    /\ ~isShuttingDown

\* C29: after a heartbeat send has failed on an established connection,
\* ConnectWebSocket leaves its wait on that connection (it reconnects or
\* returns).
C29_FailedHeartbeatEndsConnection ==
    HeartbeatFailed ~> wsPc # "select"

\* the three tasks of the connection have returned and ConnectWebSocket has
\* left its select
ConnectionOver ==
    wsPc # "select" /\ inbound = "off" /\ ~statusTask /\ ~livenessTask

\* C30: once one of the channels of a connection is closed, the three tasks
\* of that connection return and ConnectWebSocket leaves its select (to
\* reconnect or to return): no task of an ended connection runs for ever.
C30_TasksStopAfterSignal ==
    chan # "open" ~> ConnectionOver
\* the liveness task has signalled stateDeleted, ConnectWebSocket has
\* returned, and the inbound task was the last to return, on the read error
\* of the socket clearConnection closed
C30_Witness ==
    /\ ConnectionOver /\ chan = "stateDeleted" /\ retReason = "stateDeleted"
    /\ wsEvt.op = "readFailed"

\* the last step was the inbound task deleting the descriptor (DeleteState
\* of handleMessage or handleDeactivated)
InboundDeleted == wsEvt.op \in {"afterSleep", "read"} /\ ~HasState

\* C31: no task of a connection deletes the descriptor after the
\* ConnectWebSocket call of that connection has returned: a step of the
\* inbound task that removes a stored descriptor is taken while
\* ConnectWebSocket is still in its call.
C31_NoDeleteAfterConnectReturned ==
    [][(HasState /\ InboundDeleted') => wsPc # "idle"]_vars

\* ---------------------------------------------------------------- HandleConfirm
\* statement by statement, several requests at a time
\* variant: a Lock that does not wait for the holder
LockIgnoresHolder(m) == m = m
\* sync.Mutex.Lock returns once nobody holds the mutex m
Lock(m) == m = 0

\* the requests: an address, a code, the server's public key
ConfirmInputs == [ip : IPs, code : Codes, key : {"valid"}]

\* what no step of a confirm request changes
FineFrame ==
    /\ wsEvt' = NoWsEvt
    /\ resp' = NoResp
    /\ UNCHANGED <<mainPc, wsPc, backoff, retReason, connected, connOpen, shutdown,
                   chan, inbound, statusTask, livenessTask, caller,
                   disableCommands, crypto, writing>>

\* a request that has been answered a: its handler has returned
Returned(a) == [NoCall EXCEPT !.pc = "done", !.answer = a]
\* request i is at pc and goes to pc2 with answer a
Goes(i, pc2, a) == calls' = [calls EXCEPT ![i].pc = pc2, ![i].answer = a]

\* HandleConfirm, lines 479-499: request i arrives (requests are numbered
\* as they arrive); the blacklist check; the body is decoded
ConfirmArrive(i, in) ==
    /\ serverRunning
    /\ calls[i].pc = "idle"
    /\ i > 1 => calls[i - 1].pc # "idle"
    /\ IF isIPBlacklisted(in.ip)
       THEN /\ calls' = [calls EXCEPT ![i] = Returned("AccessDenied")]
            /\ UNCHANGED ipBlacklist
       ELSE /\ calls' = [calls EXCEPT ![i].pc = "lock", ![i].ip = in.ip,
                                      ![i].code = in.code, ![i].key = in.key]
            /\ ipBlacklist' = BlacklistAfterCheck(in.ip)
    /\ FineFrame
    /\ UNCHANGED <<now, codeVars, ipViolations, serverVars, ecdhVars, codeFile,
                   pairedState, codeMutex>>

\* HandleConfirm, line 501: pm.codeMutex.Lock()
ConfirmLock(i) ==
    /\ calls[i].pc = "lock"
    /\ Lock(codeMutex)
    /\ codeMutex' = i
    /\ calls' = [calls EXCEPT ![i].pc = "locked"]
    /\ FineFrame
    /\ UNCHANGED <<now, codeVars, ipVars, serverVars, ecdhVars, codeFile,
                   pairedState>>

\* HandleConfirm, lines 506-564: the tests, up to the statement that
\* changes the session or the descriptor; failCount++ loads failCount here
ConfirmChecks(i) ==
    /\ calls[i].pc = "locked"
    /\ LET c == calls[i] IN
       IF ConfirmIPMismatch(c.ip)
       THEN /\ ipViolations[c.ip] < MaxViolCount
            /\ ipViolations' = ViolationsAfterRecord(c.ip)
            /\ ipBlacklist' = BlacklistAfterRecord(ipBlacklist, c.ip)
            /\ Goes(i, "unlock", "IPMismatch")
       ELSE /\ UNCHANGED ipVars
            /\ IF ConfirmExpired
               THEN Goes(i, "unlock", "CodeExpired")
               ELSE IF c.code # pairCode
               THEN calls' = [calls EXCEPT ![i].pc = "incr",
                                           ![i].loaded = failCount]
               ELSE IF ~KeyExchangeOk(c.key)
               THEN Goes(i, "unlock", "KeyExchangeFailed")
               ELSE Goes(i, "save", "none")
    /\ FineFrame
    /\ UNCHANGED <<now, codeVars, serverVars, ecdhVars, codeFile, pairedState,
                   codeMutex>>

\* HandleConfirm, lines 523-528: failCount++ stores, 401 Incorrect code
ConfirmIncr(i) ==
    /\ calls[i].pc = "incr"
    /\ failCount' = calls[i].loaded + 1
    /\ calls' = [calls EXCEPT ![i].pc = "unlock", ![i].loaded = 0,
                              ![i].answer = "IncorrectCode"]
    /\ FineFrame
    /\ UNCHANGED <<now, pairCode, expiry, pairCodeIP, ipVars, serverVars,
                   ecdhVars, codeFile, pairedState, codeMutex>>

\* HandleConfirm, lines 566-626: state.SaveState and the rest of the
\* success path
ConfirmSave(i) ==
    /\ calls[i].pc = "save"
    /\ pairedState' = [ServerWs |-> "ws",
                       SessionKey |-> IF calls[i].key = "none" THEN "" ELSE "K",
                       present |-> TRUE]
    /\ cancelCleanup' = FALSE
    /\ ClearECDHKeys
    /\ deferred' = IF deferred < MaxDeferred THEN deferred + 1 ELSE deferred
    /\ Goes(i, "unlock", "Paired")
    /\ FineFrame
    /\ UNCHANGED <<now, codeVars, ipVars, serverRunning, isShuttingDown,
                   codeFile, codeMutex>>

\* HandleConfirm, line 502: the deferred pm.codeMutex.Unlock() as the
\* handler returns
ConfirmUnlock(i) ==
    /\ calls[i].pc = "unlock"
    /\ codeMutex' = 0
    /\ calls' = [calls EXCEPT ![i] = Returned(calls[i].answer)]
    /\ FineFrame
    /\ UNCHANGED <<now, codeVars, ipVars, serverVars, ecdhVars, codeFile,
                   pairedState>>

\* the listener is up and HandlePair has issued a code to ipA
InitConfirm ==
    /\ now = 1
    /\ pairCode = "AAA" /\ expiry = now + pairingCodeExpiry /\ failCount = 0
    /\ pairCodeIP = "ipA"
    /\ ipBlacklist = [ip \in IPs |-> NoEntry]
    /\ ipViolations = [ip \in IPs |-> 0]
    /\ serverRunning = TRUE /\ cancelCleanup = TRUE /\ deferred = 0
    /\ isShuttingDown = FALSE
    /\ ecdhPrivateKey = TRUE /\ ecdhPublicKey = TRUE
    /\ sharedSecret = FALSE /\ sessionKey = FALSE
    /\ codeFile = "AAA" /\ pairedState = NoState
    /\ resp = NoResp
    /\ WsInit /\ FineInit
    /\ disableCommands = FALSE
    /\ crypto = NoCrypto

NextConfirm ==
    \/ Tick
    \/ \E i \in CallIds, in \in ConfirmInputs : ConfirmArrive(i, in)
    \/ \E i \in CallIds : ConfirmLock(i)
    \/ \E i \in CallIds : ConfirmChecks(i)
    \/ \E i \in CallIds : ConfirmIncr(i)
    \/ \E i \in CallIds : ConfirmSave(i)
    \/ \E i \in CallIds : ConfirmUnlock(i)

SpecConfirm == InitConfirm /\ [][NextConfirm]_vars

\* the requests answered 401 Incorrect code
AnsweredIncorrect == {i \in CallIds : calls[i].answer = "IncorrectCode"}

\* C32: whatever the interleaving of concurrent confirm requests on one
\* session, failCount is the number of requests answered Incorrect code, it
\* never exceeds MAX_FAIL_COUNT, and at most MAX_FAIL_COUNT requests are
\* answered Incorrect code.
C32_NoLostIncrement ==
    /\ failCount = Cardinality(AnsweredIncorrect)
    /\ failCount <= MAX_FAIL_COUNT
    /\ Cardinality(AnsweredIncorrect) <= MAX_FAIL_COUNT
\* C32 happens: three requests have been answered Incorrect code, the last
\* of them still holds the lock, and another request with a wrong code from
\* the bound address waits for it before the code has expired
C32_Witness ==
    /\ failCount = MAX_FAIL_COUNT /\ ~After(now, expiry)
    /\ \E i, j \in CallIds :
          /\ calls[i].pc = "unlock" /\ calls[i].answer = "IncorrectCode"
          /\ codeMutex = i
          /\ calls[j].pc = "lock" /\ calls[j].code # pairCode
          /\ calls[j].ip = pairCodeIP

\* a PairingSession exists that is not usable: it has expired or its
\* attempts are used up
Unusable == pairCode # "" /\ ~Usable
\* the session, its code file and the key-exchange state are cleared
Destroyed ==
    /\ pairCode = "" /\ pairCodeIP = "" /\ expiry = ZeroTime /\ failCount = 0
    /\ codeFile = ""
    /\ ~ecdhPrivateKey /\ ~ecdhPublicKey /\ ~sharedSecret /\ ~sessionKey

\* C33: a tick of the cleanup task that finds the session expired or
\* exhausted clears code, bound address, expiry, failCount, the code file
\* and the key-exchange state; a tick that finds a usable session (or none)
\* leaves all of them unchanged; every tick removes the blacklist entries
\* that have run out, with their violation counts.
C33_SweepDestroysUnusable ==
    [][Sweep =>
        /\ IF Unusable THEN Destroyed'
           ELSE UNCHANGED <<codeVars, codeFile, ecdhVars>>
        /\ \A ip \in IPs :
              ExpiredEntry(ip) => ipBlacklist'[ip] = NoEntry /\ ipViolations'[ip] = 0]_vars

\* C34: no disk operation is performed while codeMutex is held: a step
\* that writes paired.json or the pairing code file is taken by a handler
\* that is outside the critical section.
C34_NoLockHeldDuringIO ==
    [][(pairedState' # pairedState \/ codeFile' # codeFile) => codeMutex = 0]_vars

\* ---------------------------------------------------------------- the writers
\* of one connection, with a write taken as two steps: a task enters
\* WriteJSON or WriteMessage on the connection, and it comes back
\* sendResponse (line 1279 c.WriteJSON) and DisconnectWebSocket (line 1315
\* c.WriteMessage): what a task waits for before it writes (nothing)
WriteEnters == TRUE

\* what no step of a writer changes
WriteFrame ==
    /\ resp' = NoResp
    /\ UNCHANGED <<now, codeVars, ipVars, ecdhVars, codeFile, cancelCleanup,
                   deferred, disableCommands, crypto, codeMutex, calls>>

\* handleMessage: whether the handler of message m writes on the connection
\* (a pong, command responses, the close frame of DisconnectWebSocket)
InboundWrites(m, c, execOk) ==
    LET d == Disposition(m) IN
    IF m.form = "plain" /\ m.type = "deactivated" THEN connected
    ELSE CASE d \in {"violation", "deactivated"} -> connected
           [] d = "ping" -> ~sendResponseErr
           [] d = "command" ->
                 handleCommand(c, execOk).replies # <<>> /\ ~sendResponseErr
           [] OTHER -> FALSE

\* where the inbound task stands while it writes for message m
InboundWritePc(m) ==
    LET d == Disposition(m) IN
    IF m.form = "plain" /\ m.type = "deactivated" THEN "writeDeact"
    ELSE IF d = "violation" THEN "writeViolation"
    ELSE IF d = "deactivated" THEN "writeDeactEnc"
    ELSE "write"

\* the inbound task reads a message: a handler that writes nothing runs as
\* a whole; one that writes runs up to its write (ShutdownWebSocket has set
\* the shutdown flag by then)
InboundReadW(m, c, execOk) ==
    /\ inbound = "read" /\ connOpen
    /\ IF InboundWrites(m, c, execOk)
       THEN /\ WriteEnters
            /\ inbound' = InboundWritePc(m)
            /\ writing' = writing \cup {"inbound"}
            /\ shutdown' = (shutdown \/ InboundWritePc(m) = "writeViolation")
            /\ wsEvt' = WsEvt("writeBegin", m, <<>>, Handler(Disposition(m)), FALSE)
            /\ WriteFrame
            /\ UNCHANGED <<serverRunning, isShuttingDown, pairedState, mainPc,
                           wsPc, backoff, retReason, connected, connOpen, chan,
                           statusTask, livenessTask, caller>>
       ELSE InboundRead(m, c, execOk)

\* the write of the inbound task returns: the handler goes on to the sleep
\* of DisconnectWebSocket or returns to the loop
InboundWriteEnd ==
    /\ inbound \in {"write", "writeViolation", "writeDeact", "writeDeactEnc"}
    /\ inbound' = CASE inbound = "write" -> "top"
                    [] inbound = "writeViolation" -> "sleepViolation"
                    [] inbound = "writeDeact" -> "sleepDeact"
                    [] inbound = "writeDeactEnc" -> "sleepDeactEnc"
    /\ writing' = writing \ {"inbound"}
    /\ wsEvt' = WsEvt("writeEnd", NoMsg, <<>>, "none", FALSE)
    /\ WriteFrame
    /\ UNCHANGED <<serverRunning, isShuttingDown, pairedState, mainPc, wsPc, backoff,
                   retReason, connected, connOpen, shutdown, chan, statusTask,
                   livenessTask, caller>>

\* the status task: one tick of its ticker, up to the write of the heartbeat
StatusTickW ==
    /\ statusTask /\ "status" \notin writing
    /\ IF shutdown \/ sendResponseErr
       THEN StatusTick
       ELSE /\ WriteEnters
            /\ writing' = writing \cup {"status"}
            /\ wsEvt' = WsEvt("writeBegin", NoMsg, <<>>, "none", FALSE)
            /\ WriteFrame
            /\ UNCHANGED <<serverRunning, isShuttingDown, pairedState, mainPc,
                           wsPc, backoff, retReason, connected, connOpen, shutdown,
                           chan, inbound, statusTask, livenessTask, caller>>

\* the write of the status task returns
StatusWriteEnd ==
    /\ "status" \in writing
    /\ writing' = writing \ {"status"}
    /\ wsEvt' = WsEvt("writeEnd", NoMsg, <<>>, "none", FALSE)
    /\ WriteFrame
    /\ UNCHANGED <<serverRunning, isShuttingDown, pairedState, mainPc, wsPc, backoff,
                   retReason, connected, connOpen, shutdown, chan, inbound,
                   statusTask, livenessTask, caller>>

\* main.go gracefulShutdown on a connected manager: ShutdownWebSocket(true)
\* up to the writes of DisconnectWebSocket (the notice, the close frame)
GracefulShutdownW ==
    /\ ~isShuttingDown /\ ~serverRunning
    /\ IF connected
       THEN /\ WriteEnters
            /\ isShuttingDown' = TRUE
            /\ shutdown' = TRUE
            /\ caller' = "write"
            /\ writing' = writing \cup {"caller"}
            /\ wsEvt' = WsEvt("writeBegin", NoMsg, <<>>, "none", FALSE)
            /\ WriteFrame
            /\ UNCHANGED <<serverRunning, pairedState, mainPc, wsPc, backoff, retReason,
                           connected, connOpen, chan, inbound, statusTask,
                           livenessTask>>
       ELSE GracefulShutdown

\* the writes of DisconnectWebSocket return: its sleep begins
CallerWriteEnd ==
    /\ caller = "write"
    /\ caller' = "sleep"
    /\ writing' = writing \ {"caller"}
    /\ wsEvt' = WsEvt("writeEnd", NoMsg, <<>>, "none", FALSE)
    /\ WriteFrame
    /\ UNCHANGED <<serverRunning, isShuttingDown, pairedState, mainPc, wsPc, backoff,
                   retReason, connected, connOpen, shutdown, chan, inbound,
                   statusTask, livenessTask>>

NextWrite ==
    \/ MainStart
    \/ MainLoop1
    \/ MainAfterConnect1
    \/ ConnectLoop
    \/ \E ok \in BOOLEAN : Dial(ok)
    \/ InboundTop
    \/ InboundReadFail
    \/ \E m \in InMsgs, c \in Cmds, execOk \in BOOLEAN :
          InboundReadW(m, c, execOk)
    \/ InboundWriteEnd
    \/ InboundAfterSleep
    \/ StatusTickW
    \/ StatusWriteEnd
    \/ "status" \notin writing /\ StatusStop
    \/ LivenessStop
    \/ LivenessTick
    \/ ConnectSelect
    \/ PeerClose
    \/ GracefulShutdownW
    \/ CallerWriteEnd
    \/ ShutdownAfterSleep

SpecWrite == InitWs /\ [][NextWrite]_vars

\* C35: at no time are two tasks inside a write on the connection:
\* heartbeat sends, the inbound task's replies and close frame, and the
\* notice and close frame of a shutdown exclude each other.
C35_OneWriterAtATime == Cardinality(writing) <= 1

\* C36: for every payload that is base64, DecryptMessage returns (a message
\* or an error value) and does not abort; for a payload of at least one
\* block whose data after the IV is empty or not a whole number of blocks
\* it returns an error value.
C36_DecryptNeverAborts ==
    (crypto.op = "decrypt" /\ crypto.payload.valid)
    => LET bs == crypto.payload.bytes IN
       /\ crypto.dec.err # "panic"
       /\ (Len(bs) >= BlockSize
             /\ (Len(bs) = BlockSize \/ Len(bs) % BlockSize # 0))
            => crypto.dec.err # ""

\* C37: the manager holds at most one transport connection: the socket is
\* open only while the manager holds its handle, and while ConnectWebSocket
\* is at the top of its loop, in a dial, or has returned, no handle is held
\* and no socket is open (a new connection is dialed only after the one
\* before has been cleared and closed).
C37_AtMostOneConnection ==
    /\ connOpen => connected
    /\ wsPc \in {"loop", "dialing", "idle"} => ~connected /\ ~connOpen
\* C37 happens: a connection has ended on the done channel and
\* ConnectWebSocket is dialing the next one
C37_Witness ==
    /\ wsPc = "dialing" /\ chan = "done" /\ ~shutdown
    /\ ~connected /\ ~connOpen

\* the delay the claim gives for the n-th failed dial in a row
Delay(n) == IF 2 ^ (n - 1) < 30 THEN 2 ^ (n - 1) ELSE 30
\* as many failures in a row as tell the delays apart, and one more
MaxRow == 7

\* C38: the delay slept after the n-th failed dial in a row is
\* min(2^(n-1), 30) seconds.  By induction on n: a call starts with the
\* delay of a first failure, and so does the dial after a successful one;
\* a failed dial that finds the delay of an n-th failure sleeps it and
\* leaves the delay of an (n+1)-th; no other step changes the delay.
C38_BackoffDoublesToThirty ==
    [][/\ wsEvt'.op = "dialFailed" =>
            \E n \in 1 .. MaxRow :
                /\ backoff = Delay(n)
                /\ wsEvt'.slept = Delay(n)
                /\ wsEvt'.slept >= 1 /\ wsEvt'.slept <= 30
                /\ backoff' = Delay(n + 1)
       /\ wsEvt'.op = "dialed" => backoff' = Delay(1)
       /\ (wsPc = "idle" /\ wsPc' # "idle") => backoff' = Delay(1)
       /\ backoff' # backoff =>
            \/ wsEvt'.op \in {"dialFailed", "dialed"}
            \/ wsPc = "idle" \/ wsPc' = "idle"]_vars
\* C38 happens: a failed dial has just slept the capped delay of 30 for the
\* second time in a row (the seventh failure)
C38_Witness ==
    /\ wsEvt.op = "dialFailed" /\ wsEvt.slept = 30 /\ backoff = 30
    /\ wsPc = "loop"

\* C39: a pair request that fails with 500 because the key pair could not
\* be generated leaves the PairingSession as it was: code, bound address,
\* expiry and failCount, and the code file.
C39_FailedKeyGenLeavesSession ==
    [][(resp'.kind = "pair" /\ resp'.status = 500) =>
            UNCHANGED <<codeVars, codeFile>>]_vars

\* C40: a confirm request with a well-formed body that comes from another
\* address than the one the session is bound to is rejected (403) whatever
\* its code and leaves the PairingSession unchanged: code, bound address,
\* expiry and failCount, and with them the code file, paired.json and the
\* keys; such requests never use up the attempts of the session.
C40_MismatchLeavesSession ==
    [][(/\ resp'.kind = "confirm" /\ resp'.status # 400
        /\ pairCodeIP # "" /\ resp'.ip # pairCodeIP) =>
            /\ resp'.status = 403
            /\ UNCHANGED <<codeVars, codeFile, pairedState, ecdhVars>>]_vars
\* C40 happens: another address has just been turned down for the
\* MAX_FAIL_COUNT-th time, and the session is still usable with no failed
\* attempt counted
C40_Witness ==
    /\ resp.kind = "confirm" /\ resp.status = 403
    /\ pairCodeIP # "" /\ resp.ip # pairCodeIP
    /\ ipViolations[resp.ip] >= MAX_FAIL_COUNT
    /\ Usable /\ failCount = 0

====
